---- MODULE Spec2Model ----
(***************************************************************************)
(* Model of the Yggdrasil / Home Assistant adapter                         *)
(* (aimas-upb/llm-agents-for-ami).                                         *)
(*                                                                         *)
(*   Spec     the adapter application of src/ygg_ha_adapter.py: the event  *)
(*            forwarder task, the startup registration task and the        *)
(*            shutdown handler, against a hub whose registry changes.      *)
(*   SpecSel  the service selector of src/set-property.py, applied to      *)
(*            requests and service catalogs drawn from bounded sets, and   *)
(*            the write that follows it.                                   *)
(*   SpecAcc  the loop of src/adjust_lux_on_events.py, with another writer *)
(*            of the illuminance sensor.                                   *)
(*   SpecEvent  the receive step of that loop, for every message.          *)
(*   SpecCls  _infer_value_and_type of src/ygg_ha_adapter.py, applied to   *)
(*            states drawn from a bounded set.                             *)
(*   SpecArt  get_artifact of src/ygg_ha_adapter.py, for requests drawn    *)
(*            from a bounded set.                                          *)
(*   SpecReset  one call of _post_monitor_reset or _post_explorer_reset.   *)
(*   SpecPick  the resolution of the artifact in src/set-property.py.      *)
(*   SpecSet  _set_sensor_value of src/adjust_lux_on_events.py.            *)
(*   SpecLive  the event forwarder under weak fairness, against a hub that *)
(*            recovers for good.                                           *)
(*   SpecWs   HomeAssistantWS of src/ha_utils.py, called by two tasks.     *)
(*   SpecAct  one request to an action endpoint of src/ygg_ha_adapter.py.  *)
(*                                                                         *)
(* Texts that the code takes apart (entity ids, states, device names,      *)
(* service names, command-line values) are sequences of one-character      *)
(* strings; identifiers the code only compares (area ids, device ids,      *)
(* field names) are strings.                                               *)
(***************************************************************************)
EXTENDS Integers, Sequences, FiniteSets, TLC

VARIABLES
    MONITOR_URL,    \* the monitor endpoint: "" (unset) or a URL
    AREAS,          \* the allow-list of area ids (empty: accept all)
    hubReg,         \* the hub's current registry: an index into Registries
    regChanged,     \* history: the registry changed since the forwarder's current
                    \* connection cycle began (task start, or the end of a backoff)
    apc,            \* application: "starting", "running", "shutdown"
    forward_task,   \* app.state.forward_task: "none" or "task"
    fpc,            \* the forwarder task's position
    taskResult,     \* the task's outcome: "pending", "returned", "cancelled", "exception"
    cancelReq,      \* task.cancel() was called and CancelledError is not yet delivered
    hsWs,           \* the socket local to _ws_handshake: "none" or "open"
    buildWs,        \* ws of _build_entity_area_map: "none" or "open"
    ws,             \* ws of the forwarder loop: "none" or "open"
    dangling,       \* sockets the forwarder opened, still open, that nothing refers to
    buildPending,   \* registry requests (ids 1, 2) the hub has not answered yet
    devices,        \* _build_entity_area_map: devices (0: None, i: the list of Registries[i])
    entities,       \* _build_entity_area_map: entities (0: None, i: the list of Registries[i])
    index,          \* (ent_to_area, ent_to_device, dev_by_id) of the forwarder, or NoIndex
    curMsg,         \* the message the forwarder handled last in this connection
    verdict,        \* what became of curMsg
    payload,        \* the notification being posted, or NoPayload
    classified,     \* the state handed to _infer_value_and_type for curMsg, or NotCalled
    attempts,       \* POSTs made for curMsg
    spc,            \* _shutdown's position
    resetResult,    \* how the shutdown's reset calls ended: "none", "ok", "failed"
    monitor_resets, \* the callers ("startup", "shutdown") whose _post_monitor_reset
                    \* has gone on to _post_with_retries (line 326)
    ha_client_ws,   \* the shared hub WebSocket client's connection: "none" or "open"
    ha_rest,        \* the shared hub REST client: "open" or "closed"
    rpc,            \* the startup registration task's position
    rIndex,         \* the registration's own three maps
    rStates,        \* the registration's states: an index into HubStateLists, 0 before
    ri,             \* the registration's place in its states
    rPayload,       \* the notification the registration is posting, or NoPayload
    rClassified,    \* the state the registration handed to _infer_value_and_type, or NotCalled
    \* set-property.py
    sel_pc,         \* "idle" (not run), "args" (before select_service), "selected"
                    \* (after), "calling" (line 227), "state_get" (line 240),
                    \* "state_post" (line 251), "done", "failed"
    chosen_entity_id,      \* the entity the run has resolved
    argv_prop,           \* sys.argv[2]
    raw_value,      \* sys.argv[3]
    services,       \* the catalog GET /api/services answered: an index into Catalogs
    scored,         \* select_service reached its scoring loop (line 170)
    candidates,     \* select_service's candidates, as line 200 leaves them
    chosen,         \* what select_service returned, or NoChoice
    request,        \* the payload of the service call (lines 208-222), a dict
    current,        \* the answer to GET /api/states/<entity>: an index into
                    \* HubEntityStates, 0 before
    payload_state,  \* the body of the direct state set (line 249)
    writes,         \* the writes the run has sent to the hub, in order
    used_service,   \* the "used_service" of the printed result, or NotPrinted
    \* adjust_lux_on_events.py; numbers are in tenths
    acc_pc,         \* main's position: "idle" (not run), "recv" (line 172), "get"
                    \* (line 179), "set" (line 113), "fb_get" (line 117), "fb_set"
                    \* (line 119), "stopped"
    inc_light, dec_light, inc_blinds, dec_blinds,   \* the configuration
    acc_services,   \* the catalog line 166 fetched: an index into Catalogs
    hub_sensor,     \* the state the hub holds for the sensor entity, a text
    acc_msg,        \* the message line 172 received last
    delta,          \* line 175
    cur_val,        \* line 182 or 184
    new_val,        \* line 185
    seen,           \* the hub's sensor state when line 179 read it
    written,        \* the values the accumulator has written, in order
    fold,           \* v := max(0, v + delta) over the triggering events so far
    adjustments,    \* the triggering events received so far
    dropped,        \* an adjustment failed (line 189)
    external,       \* another writer has written the sensor
    lost,           \* a write of the accumulator has replaced another writer's value
    acc_ws,         \* the accumulator's event stream: "none", "open", "closed"
    cls_state,      \* the state handed to _infer_value_and_type
    cls_result,     \* what it returned: the value and its type, or NoResult
    \* get_artifact
    art_pc,         \* "idle", "resolve" (line 468), "states" (line 469), "describe"
                    \* (line 494), "done"
    art_request,    \* the workspace_id and the artifact_name of the request path
    art_device,     \* device of line 468, or NoDevice
    art_entities,   \* device_entities of line 468
    art_states,     \* states of line 469: an index into ArtStateLists, 0 before
    art_services,   \* the answer to get_services: an index into Catalogs, 0 when
                    \* the call failed (line 496), -1 before
    art_actions,    \* the action affordances added to the graph, in order
    art_status,     \* the status of the response, 0 before
    \* _post_monitor_reset, _post_explorer_reset
    reset_pc,       \* "idle", "start", "attempt" (line 309), "done"
    reset_call,     \* who called, which reset, and the configured URL
    reset_url,      \* reset_url of lines 325 and 331
    reset_posts,    \* the POSTs made so far: the sleep before each and how it ended
    reset_result,   \* "none", "skipped" (line 324), "true" or "false" (_post_with_retries)
    \* set-property.py: the resolution of the artifact
    pick_pc,        \* "idle", "device" (line 109), "entities" (line 114), "pick"
                    \* (line 139), "done", "failed" (sys.exit(1))
    pick_argv,      \* sys.argv[1] and sys.argv[2]
    pick_device,    \* device of line 109, or NoDevice
    pick_entities,  \* device_entities of line 114
    pick_entity_id, \* entity_id of line 144, or None
    \* adjust_lux_on_events.py: _set_sensor_value
    ssv_pc,         \* "idle", "pick" (line 104), "call" (line 113), "fb_get" (line
                    \* 117), "fb_set" (line 119), "done", "raised"
    ssv_services,   \* services: an index into SetCatalogs
    ssv_new_value,  \* new_value
    ssv_current,    \* the answer of line 117: an index into SensorObjects, 0 before
    ssv_picked,     \* picked of line 104, NoChoice for None
    ssv_posts,      \* the POSTs sent, in order: the path and the body of each
    \* the hub, for the forwarder's progress
    healthy,        \* from now on the hub accepts connections and its streams stay up
    \* ha_utils.py: HomeAssistantWS, and the tasks that call it
    ws_self,        \* the client: _ws (0 for None, else a connection) and _next_id
    ws_task,        \* per calling task: its position in _call, its ident, the
                    \* connection whose recv it awaits, and why it raised
    ws_conn,        \* per connection: the hub's side of it, the messages on their
                    \* way to the client, those arrived and not yet received, and
                    \* the task waiting in recv
    ws_sent,        \* history: the requests sent, with the connection of each and
                    \* whether the hub had authenticated it
    \* ygg_ha_adapter.py: action_ha_service and action_sensor_dynamic
    act_pc,         \* "idle", "resolve", "services", "call", "states", "done"
    act_request,    \* the path parameters and the body of the request
    act_entities,   \* device_entities of the artifact
    act_entity,     \* ent
    act_services,   \* the catalog GET /api/services answered (0: it failed), -1 before
    act_states,     \* the list GET /api/states answered, 0 before
    act_calls,      \* the service calls made to the hub, in order
    act_status,     \* the status of the response, 0 while there is none
    act_body        \* the text of the response

fwdVars == <<fpc, taskResult, cancelReq, hsWs, buildWs, ws, dangling, buildPending,
             devices, entities, index, curMsg, verdict, payload, classified, attempts>>
appVars == <<apc, forward_task, spc, resetResult, monitor_resets, ha_client_ws, ha_rest>>
regVars == <<rpc, rIndex, rStates, ri, rPayload, rClassified>>
cfgVars == <<MONITOR_URL, AREAS>>
adapterVars == <<cfgVars, hubReg, regChanged, appVars, fwdVars, regVars>>
selVars == <<sel_pc, chosen_entity_id, argv_prop, raw_value, services, scored, candidates, chosen>>
\* the variables of the command-line scripts, which the adapter never touches
runVars == <<request, current, payload_state, writes, used_service>>
accVars == <<acc_pc, inc_light, dec_light, inc_blinds, dec_blinds, acc_services,
             hub_sensor, acc_msg, delta, cur_val, new_val, seen, written, fold,
             adjustments, dropped, external, lost, acc_ws>>
clsVars == <<cls_state, cls_result>>
artVars == <<art_pc, art_request, art_device, art_entities, art_states, art_services,
             art_actions, art_status>>
resetVars == <<reset_pc, reset_call, reset_url, reset_posts, reset_result>>
pickVars == <<pick_pc, pick_argv, pick_device, pick_entities, pick_entity_id>>
ssvVars == <<ssv_pc, ssv_services, ssv_new_value, ssv_current, ssv_picked, ssv_posts>>
wsVars == <<ws_self, ws_task, ws_conn, ws_sent>>
actVars == <<act_pc, act_request, act_entities, act_entity, act_services, act_states,
             act_calls, act_status, act_body>>
auxVars == <<healthy, wsVars, actVars>>
handlerVars == <<artVars, resetVars, pickVars, ssvVars, auxVars>>
scriptVars == <<selVars, runVars, accVars, clsVars, handlerVars>>
vars == <<adapterVars, scriptVars>>

----------------------------------------------------------------------------
(* Texts *)

\* Python's None where a text is expected
None == <<"<None>">>
\* a missing area id, device id or attribute (None or "": the code tests truthiness)
Nil == ""

S_on == <<"o", "n">>
S_unknown == <<"u", "n", "k", "n", "o", "w", "n">>
S_unavailable == <<"u", "n", "a", "v", "a", "i", "l", "a", "b", "l", "e">>
S_21 == <<"2", "1">>
S_empty == <<>>

E_light == <<"l", "i", "g", "h", "t", ".", "l", "1">>
E_sensor == <<"s", "e", "n", "s", "o", "r", ".", "t", ".", "a">>
E_switch == <<"s", "w", "i", "t", "c", "h", ".", "x">>

E_cover == <<"c", "o", "v", "e", "r", ".", "c">>
E_fan == <<"f", "a", "n", ".", "f">>
E_bool == <<"i", "n", "p", "u", "t", "_", "b", "o", "o", "l", "e", "a", "n", ".", "b">>

D_light == <<"l", "i", "g", "h", "t">>
D_switch == <<"s", "w", "i", "t", "c", "h">>
D_fan == <<"f", "a", "n">>
D_input_boolean == <<"i", "n", "p", "u", "t", "_", "b", "o", "o", "l", "e", "a", "n">>
D_cover == <<"c", "o", "v", "e", "r">>
D_sensor == <<"s", "e", "n", "s", "o", "r">>
D_virtual == <<"v", "i", "r", "t", "u", "a", "l">>
D_homeassistant == <<"h", "o", "m", "e", "a", "s", "s", "i", "s", "t", "a", "n", "t">>
D_input_number == <<"i", "n", "p", "u", "t", "_", "n", "u", "m", "b", "e", "r">>

S_23_5 == <<"2", "3", ".", "5">>
S_unlocked == <<"u", "n", "l", "o", "c", "k", "e", "d">>

N_lamp == <<"L", " ", "1">>
N_lamp2 == <<"L", "2">>

\* index of the first occurrence of character c in text s, 0 when there is none
RECURSIVE FindFrom(_, _, _)
FindFrom(s, c, i) ==
    IF i > Len(s) THEN 0
    ELSE IF s[i] = c THEN i
    ELSE FindFrom(s, c, i + 1)

\* entity_id.split(".", 1)[-1]
ObjectId(entity_id) ==
    LET dot == FindFrom(entity_id, ".", 1)
    IN  IF dot = 0 THEN entity_id ELSE SubSeq(entity_id, dot + 1, Len(entity_id))

Unreserved ==
    {"a", "b", "c", "d", "e", "f", "g", "h", "i", "j", "k", "l", "m", "n", "o", "p",
     "q", "r", "s", "t", "u", "v", "w", "x", "y", "z",
     "A", "B", "C", "D", "E", "F", "G", "H", "I", "J", "K", "L", "M", "N", "O", "P",
     "Q", "R", "S", "T", "U", "V", "W", "X", "Y", "Z",
     "0", "1", "2", "3", "4", "5", "6", "7", "8", "9", "_", ".", "-", "~"}

\* the percent-encoding of a reserved ASCII character
PercentCode(c) ==
    CASE c = " " -> <<"%", "2", "0">>
      [] c = "/" -> <<"%", "2", "F">>
      [] c = "#" -> <<"%", "2", "3">>
      [] OTHER   -> <<"%", "3", "F">>

\* urllib.parse.quote(text, safe="")
RECURSIVE Quote(_)
Quote(s) ==
    IF s = <<>> THEN <<>>
    ELSE (IF Head(s) \in Unreserved THEN <<Head(s)>> ELSE PercentCode(Head(s)))
         \o Quote(Tail(s))

----------------------------------------------------------------------------
(* The hub's registries *)

Device(id, name, area_id) == [id |-> id, name |-> name, area_id |-> area_id]
Entity(entity_id, device_id, area_id) ==
    [entity_id |-> entity_id, device_id |-> device_id, area_id |-> area_id]

\* The registry snapshots the hub moves between.  In the second one the lamp's
\* device has moved to another area and was renamed, and the sensor's own area
\* has changed.  switch.x refers to a device the device registry does not hold;
\* device d2 has no name, and an area in the first snapshot only.  fan.f has
\* neither a device nor an area, cover.c an area and no device, and
\* input_boolean.b only device d2.
Registries ==
    << [devices  |-> <<Device("d1", N_lamp, "kitchen"), Device("d2", None, "kitchen")>>,
        entities |-> <<Entity(E_light, "d1", Nil),
                       Entity(E_sensor, "d2", "lab"),
                       Entity(E_switch, "d9", Nil),
                       Entity(E_fan, Nil, Nil),
                       Entity(E_cover, Nil, "kitchen"),
                       Entity(E_bool, "d2", Nil)>>],
       [devices  |-> <<Device("d1", N_lamp2, "lab"), Device("d2", None, Nil)>>,
        entities |-> <<Entity(E_light, "d1", Nil),
                       Entity(E_sensor, "d2", "kitchen"),
                       Entity(E_switch, "d9", Nil),
                       Entity(E_fan, Nil, Nil),
                       Entity(E_cover, Nil, "kitchen"),
                       Entity(E_bool, "d2", Nil)>>] >>

RegIds == DOMAIN Registries

\* dev_by_id = {d["id"]: d for d in devices}
DevById(devs) ==
    [id \in {devs[i].id : i \in DOMAIN devs} |->
        devs[CHOOSE i \in DOMAIN devs :
                /\ devs[i].id = id
                /\ \A j \in DOMAIN devs : devs[j].id = id => j <= i]]

\* an AreaOf that asks the device first
AreaOf_DeviceFirst(e, dev_by_id) ==
    IF e.device_id # Nil /\ e.device_id \in DOMAIN dev_by_id
       /\ dev_by_id[e.device_id].area_id # Nil
    THEN dev_by_id[e.device_id].area_id
    ELSE e.area_id

\* the area the loop body assigns to entity e: its own, else its device's
AreaOf(e, dev_by_id) ==
    IF e.area_id # Nil THEN e.area_id
    ELSE IF e.device_id # Nil /\ e.device_id \in DOMAIN dev_by_id
         THEN dev_by_id[e.device_id].area_id
         ELSE Nil

\* the for loop over entities, from entity i on, updating (ent_to_area, ent_to_device)
RECURSIVE IndexLoop(_, _, _, _, _)
IndexLoop(ents, i, dev_by_id, ent_to_area, ent_to_device) ==
    IF i > Len(ents)
    THEN [ent_to_area |-> ent_to_area, ent_to_device |-> ent_to_device,
          dev_by_id |-> dev_by_id]
    ELSE LET e == ents[i]
             area_id == AreaOf(e, dev_by_id)
             a2 == IF area_id # Nil
                   THEN [x \in DOMAIN ent_to_area \cup {e.entity_id} |->
                            IF x = e.entity_id THEN area_id ELSE ent_to_area[x]]
                   ELSE ent_to_area
             d2 == IF e.device_id # Nil
                   THEN [x \in DOMAIN ent_to_device \cup {e.entity_id} |->
                            IF x = e.entity_id THEN e.device_id ELSE ent_to_device[x]]
                   ELSE ent_to_device
         IN  IndexLoop(ents, i + 1, dev_by_id, a2, d2)

EmptyMap == [x \in {} |-> Nil]

\* what _build_entity_area_map returns for the fetched device and entity lists
BuildIndex(devs, ents) == IndexLoop(ents, 1, DevById(devs), EmptyMap, EmptyMap)

\* the forwarder's three maps before _build_entity_area_map has returned
NoIndex == [ent_to_area |-> EmptyMap, ent_to_device |-> EmptyMap, dev_by_id |-> EmptyMap]

----------------------------------------------------------------------------
(* set-property.py: texts and values *)

W_on == S_on
W_true == <<"t", "r", "u", "e">>
W_1 == <<"1">>
W_open == <<"o", "p", "e", "n">>
W_off == <<"o", "f", "f">>
W_false == <<"f", "a", "l", "s", "e">>
W_0 == <<"0">>
W_closed == <<"c", "l", "o", "s", "e", "d">>
W_close == <<"c", "l", "o", "s", "e">>
W_True == <<"T", "r", "u", "e">>
W_False == <<"F", "a", "l", "s", "e">>
W_None == <<"N", "o", "n", "e">>
W_null == <<"n", "u", "l", "l">>
W_set == <<"s", "e", "t">>

\* further command-line values the runs are given
R_ON == <<" ", "O", "N", " ">>
R_quoted_on == <<"\"", "o", "n", "\"">>
R_minus0 == <<"-", "0">>
R_50 == <<"5", "0">>
R_01 == <<"0", "1">>

RawValues ==
    {W_on, R_ON, W_true, W_True, W_1, W_open, R_quoted_on, W_off, W_false, W_0,
     R_minus0, W_closed, W_close, R_50, W_null, R_01}

Whitespace == {" ", "\t", "\n", "\r"}
Digits == <<"0", "1", "2", "3", "4", "5", "6", "7", "8", "9">>
DigitSet == {Digits[i] : i \in DOMAIN Digits}
UpperCase == <<"A", "B", "C", "D", "E", "F", "G", "H", "I", "J", "K", "L", "M",
               "N", "O", "P", "Q", "R", "S", "T", "U", "V", "W", "X", "Y", "Z">>
LowerCase == <<"a", "b", "c", "d", "e", "f", "g", "h", "i", "j", "k", "l", "m",
               "n", "o", "p", "q", "r", "s", "t", "u", "v", "w", "x", "y", "z">>

\* str.strip(): the text without its leading and trailing whitespace
RECURSIVE StripLeft(_)
StripLeft(s) ==
    IF s # <<>> /\ Head(s) \in Whitespace THEN StripLeft(Tail(s)) ELSE s
RECURSIVE StripRight(_)
StripRight(s) ==
    IF s # <<>> /\ s[Len(s)] \in Whitespace
    THEN StripRight(SubSeq(s, 1, Len(s) - 1)) ELSE s
Strip(s) == StripRight(StripLeft(s))

\* str.lower() on ASCII text
LowerChar(c) ==
    IF \E i \in DOMAIN UpperCase : UpperCase[i] = c
    THEN LowerCase[CHOOSE i \in DOMAIN UpperCase : UpperCase[i] = c]
    ELSE c
Lower(s) == [i \in DOMAIN s |-> LowerChar(s[i])]

\* the number a text of digits denotes
DigitValue(c) == (CHOOSE i \in DOMAIN Digits : Digits[i] = c) - 1
RECURSIVE DigitsValue(_)
DigitsValue(s) ==
    IF s = <<>> THEN 0
    ELSE 10 * DigitsValue(SubSeq(s, 1, Len(s) - 1)) + DigitValue(s[Len(s)])

\* str(n) for an integer n
RECURSIVE NatText(_)
NatText(n) ==
    IF n < 10 THEN <<Digits[n + 1]>> ELSE NatText(n \div 10) \o <<Digits[(n % 10) + 1]>>
IntText(n) == IF n < 0 THEN <<"-">> \o NatText(-n) ELSE NatText(n)

\* the values json.loads yields here, and the text that failed to parse
BoolValue(b) == [kind |-> "bool", b |-> b, n |-> 0, s |-> <<>>]
NullValue == [kind |-> "null", b |-> FALSE, n |-> 0, s |-> <<>>]
IntValue(n) == [kind |-> "int", b |-> FALSE, n |-> n, s |-> <<>>]
StrValue(s) == [kind |-> "str", b |-> FALSE, n |-> 0, s |-> s]

\* the JSON grammar of an integer: -?(0|[1-9][0-9]*)
IsJsonInt(t) ==
    LET d == IF t # <<>> /\ Head(t) = "-" THEN Tail(t) ELSE t
    IN  /\ d # <<>>
        /\ \A i \in DOMAIN d : d[i] \in DigitSet
        /\ (Len(d) > 1 => d[1] # "0")

\* a JSON string without escapes
IsJsonString(t) ==
    /\ Len(t) >= 2
    /\ t[1] = "\"" /\ t[Len(t)] = "\""
    /\ \A i \in 2..(Len(t) - 1) : t[i] \notin {"\"", "\\"}

\* _parse_value: json.loads(val), or val itself when that raises.  Of JSON, the
\* literals, the integers and the strings without escapes are parsed; RawValues
\* holds no other JSON text.
ParseValue(val) ==
    LET t == StripRight(StripLeft(val))
    IN  CASE t = W_true  -> BoolValue(TRUE)
          [] t = W_false -> BoolValue(FALSE)
          [] t = W_null  -> NullValue
          [] IsJsonInt(t) ->
                IntValue(IF Head(t) = "-" THEN 0 - DigitsValue(Tail(t))
                         ELSE DigitsValue(t))
          [] IsJsonString(t) -> StrValue(SubSeq(t, 2, Len(t) - 1))
          [] OTHER -> StrValue(val)

\* str(value)
PyStr(value) ==
    CASE value.kind = "bool" -> (IF value.b THEN W_True ELSE W_False)
      [] value.kind = "null" -> W_None
      [] value.kind = "int"  -> IntText(value.n)
      [] OTHER               -> value.s

\* line 159: desired = str(value).strip().lower()
Desired(value) == Lower(Strip(PyStr(value)))

\* line 153: entity_id.split(".")[0]
DomainOf(ent) ==
    LET dot == FindFrom(ent, ".", 1)
    IN  IF dot = 0 THEN ent ELSE SubSeq(ent, 1, dot - 1)

\* whether text sub occurs in text s ("sub in s")
Contains(s, sub) ==
    \E i \in 1..(Len(s) - Len(sub) + 1) : SubSeq(s, i, i + Len(sub) - 1) = sub

----------------------------------------------------------------------------
(* ygg_ha_adapter.py: _infer_value_and_type *)

XSD_BOOL == "http://www.w3.org/2001/XMLSchema#boolean"
XSD_INT == "http://www.w3.org/2001/XMLSchema#integer"
XSD_DOUBLE == "http://www.w3.org/2001/XMLSchema#double"
XSD_STRING == "http://www.w3.org/2001/XMLSchema#string"

\* a float: m * 10^e with m not a multiple of 10 (0 is m = 0, e = 0), with its
\* sign; or an infinity, or a nan
FloatValue(neg, m, e) == [kind |-> "double", form |-> "finite", neg |-> neg, m |-> m, e |-> e]
InfValue(neg) == [kind |-> "double", form |-> "inf", neg |-> neg, m |-> 0, e |-> 0]
NanValue(neg) == [kind |-> "double", form |-> "nan", neg |-> neg, m |-> 0, e |-> 0]

\* digits, with single underscores between them
DigitRun(t) ==
    /\ t # <<>>
    /\ t[1] \in DigitSet /\ t[Len(t)] \in DigitSet
    /\ \A i \in DOMAIN t : t[i] \in DigitSet \cup {"_"}
    /\ \A i \in 1..(Len(t) - 1) : ~(t[i] = "_" /\ t[i + 1] = "_")

IsDigit(c) == c \in DigitSet
RunValue(t) == DigitsValue(SelectSeq(t, IsDigit))

\* int(state) for a text: surrounding whitespace, a sign, decimal digits; or a
\* ValueError
IntOfText(state) ==
    LET t == Strip(state)
        signed == t # <<>> /\ Head(t) \in {"-", "+"}
        body == IF signed THEN Tail(t) ELSE t
        ok == DigitRun(body)
    IN  [ok |-> ok,
         n |-> IF ~ok THEN 0
               ELSE IF Head(t) = "-" THEN 0 - RunValue(body) ELSE RunValue(body)]

\* m * 10^e with the trailing zeros of m moved into e
RECURSIVE Normal(_, _, _)
Normal(neg, m, e) ==
    IF m = 0 THEN FloatValue(neg, 0, 0)
    ELSE IF m % 10 = 0 THEN Normal(neg, m \div 10, e + 1)
    ELSE FloatValue(neg, m, e)

\* the largest and the smallest decimal exponent of a double
MaxExp10 == 308
MinExp10 == 0 - 324

\* the double nearest to m * 10^e: an infinity beyond the largest double, 0
\* below the smallest.  (Within a factor of 10 of either end, and beyond 17
\* digits, the nearest double is not computed; no state so long is read.)
Rounded(neg, m, e) ==
    LET top == Len(NatText(m)) + e - 1
    IN  IF m # 0 /\ top > MaxExp10 THEN InfValue(neg)
        ELSE IF m # 0 /\ top < MinExp10 THEN FloatValue(neg, 0, 0)
        ELSE Normal(neg, m, e)

\* the position of the exponent mark in t, or 0
ExpMark(t) ==
    LET a == FindFrom(t, "e", 1)
        b == FindFrom(t, "E", 1)
    IN  IF a = 0 THEN b ELSE IF b = 0 THEN a ELSE IF a < b THEN a ELSE b

W_inf == <<"i", "n", "f">>
W_infinity == <<"i", "n", "f", "i", "n", "i", "t", "y">>
W_nan == <<"n", "a", "n">>

\* float(state) for a text: surrounding whitespace, a sign, then inf, infinity
\* or nan in any case, or digits with a point and an exponent; or a ValueError
FloatOfText(state) ==
    LET t == Strip(state)
        signed == t # <<>> /\ Head(t) \in {"-", "+"}
        neg == signed /\ Head(t) = "-"
        body == IF signed THEN Tail(t) ELSE t
        mark == ExpMark(body)
        mant == IF mark = 0 THEN body ELSE SubSeq(body, 1, mark - 1)
        ex == IF mark = 0 THEN <<>> ELSE SubSeq(body, mark + 1, Len(body))
        exsigned == ex # <<>> /\ Head(ex) \in {"-", "+"}
        exbody == IF exsigned THEN Tail(ex) ELSE ex
        dot == FindFrom(mant, ".", 1)
        ip == IF dot = 0 THEN mant ELSE SubSeq(mant, 1, dot - 1)
        fp == IF dot = 0 THEN <<>> ELSE SubSeq(mant, dot + 1, Len(mant))
        ok == /\ ip \o fp # <<>>
              /\ ip # <<>> => DigitRun(ip)
              /\ fp # <<>> => DigitRun(fp)
              /\ mark # 0 => DigitRun(exbody)
        fdigits == SelectSeq(fp, IsDigit)
        exval == IF mark = 0 THEN 0
                 ELSE IF Head(ex) = "-" THEN 0 - RunValue(exbody) ELSE RunValue(exbody)
    IN  IF Lower(body) \in {W_inf, W_infinity} THEN [ok |-> TRUE, f |-> InfValue(neg)]
        ELSE IF Lower(body) = W_nan THEN [ok |-> TRUE, f |-> NanValue(neg)]
        ELSE IF ~ok THEN [ok |-> FALSE, f |-> FloatValue(FALSE, 0, 0)]
        ELSE [ok |-> TRUE,
              f |-> Rounded(neg, RunValue(SelectSeq(ip, IsDigit) \o fdigits),
                            exval - Len(fdigits))]

\* a classifier that tries float before int
InferValueAndType_FloatFirst(state) ==
    IF state \in {W_on, W_off} THEN [value |-> BoolValue(state = W_on), type |-> XSD_BOOL]
    ELSE IF FloatOfText(state).ok THEN [value |-> FloatOfText(state).f, type |-> XSD_DOUBLE]
    ELSE IF IntOfText(state).ok THEN [value |-> IntValue(IntOfText(state).n), type |-> XSD_INT]
    ELSE [value |-> StrValue(state), type |-> XSD_STRING]

\* lines 174-187
InferValueAndType(state) ==
    IF state \in {W_on, W_off} THEN [value |-> BoolValue(state = W_on), type |-> XSD_BOOL]
    ELSE IF IntOfText(state).ok THEN [value |-> IntValue(IntOfText(state).n), type |-> XSD_INT]
    ELSE IF FloatOfText(state).ok THEN [value |-> FloatOfText(state).f, type |-> XSD_DOUBLE]
    ELSE [value |-> StrValue(state), type |-> XSD_STRING]

----------------------------------------------------------------------------
(* Messages of the hub's event stream *)

Msg(type, event_type, entity_id, state, device_class) ==
    [type |-> type, event_type |-> event_type, entity_id |-> entity_id,
     state |-> state, device_class |-> device_class, time_fired |-> "t1"]

NoMsg == Msg("none", Nil, None, None, Nil)

\* state None stands for a missing new_state as well as for a missing state
EventStates == {None, S_unknown, S_unavailable, S_on, S_21}

\* the messages the hub sends on a subscribed stream: the result of the
\* subscription, events of another type, and state_changed events
Messages ==
    {Msg("result", Nil, None, None, Nil), Msg("event", "call_service", E_light, S_on, Nil)}
    \cup {Msg("event", "state_changed", e, s, Nil) :
            e \in {E_light, E_switch, None}, s \in EventStates}
    \cup {Msg("event", "state_changed", e, S_on, Nil) : e \in {S_empty, E_fan, E_bool}}
    \cup {Msg("event", "state_changed", E_sensor, s, dc) :
            s \in EventStates, dc \in {Nil, "temperature"}}
    \cup {Msg("event", "state_changed", E_sensor, S_21, ""),
          Msg("event", "state_changed", E_sensor, S_23_5, "temperature"),
          Msg("event", "state_changed", E_switch, S_unlocked, Nil)}

\* UsableEvent with "unavailable" left out of the excluded states
UsableEvent_ForgetsUnavailable(entity_id, state) ==
    /\ entity_id # None
    /\ entity_id # <<>>
    /\ state \notin {None, S_unknown}

\* line 254 negated: the entity id is there and the state is a usable one
UsableEvent(entity_id, state) ==
    /\ entity_id # None
    /\ entity_id # <<>>
    /\ state \notin {None, S_unknown, S_unavailable}

\* ent_to_area.get(entity_id)
LookupArea(idx, entity_id) ==
    IF entity_id \in DOMAIN idx.ent_to_area THEN idx.ent_to_area[entity_id] ELSE Nil

\* AreaAllowed with the empty allow-list admitting nothing
AreaAllowed_EmptyDeniesAll(area_id, areas) ==
    /\ area_id # Nil
    /\ area_id \in areas

\* line 257 negated: the area resolves and the allow-list admits it
AreaAllowed(area_id, areas) ==
    /\ area_id # Nil
    /\ (areas = {} \/ area_id \in areas)

\* lines 260-267: the device's name, else the entity id's object id; URL-quoted
ArtifactName(idx, entity_id) ==
    LET dev_id == IF entity_id \in DOMAIN idx.ent_to_device
                  THEN idx.ent_to_device[entity_id] ELSE Nil
        device_name == IF dev_id # Nil /\ dev_id \in DOMAIN idx.dev_by_id
                       THEN idx.dev_by_id[dev_id].name ELSE None
    IN  Quote(IF device_name = None \/ device_name = <<>>
              THEN ObjectId(entity_id) ELSE device_name)

\* a notification that carries every state as a string
Notification_StringValue(idx, area_id, entity_id, device_class, state, tstamp) ==
    LET artifact_profile == <<"BASE_WS_URI", "/workspaces/", area_id, "/artifacts/",
                              ArtifactName(idx, entity_id)>>
        prop == IF device_class # Nil /\ device_class # "" THEN device_class ELSE "state"
    IN  [artifactUri  |-> <<artifact_profile, "#artifact">>,
         propertyUri  |-> <<artifact_profile, "/props/", prop>>,
         value        |-> StrValue(state),
         valueTypeUri |-> XSD_STRING,
         timestamp    |-> tstamp,
         triggerUri   |-> <<artifact_profile, "/actions/read">>]

\* lines 268-281: the notification for an event that passed the filters; a
\* device_class is Nil when the attribute is missing, "" when it is empty
Notification(idx, area_id, entity_id, device_class, state, tstamp) ==
    LET artifact_profile == <<"BASE_WS_URI", "/workspaces/", area_id, "/artifacts/",
                              ArtifactName(idx, entity_id)>>
        prop == IF device_class # Nil /\ device_class # "" THEN device_class ELSE "state"
        inferred == InferValueAndType(state)
    IN  [artifactUri  |-> <<artifact_profile, "#artifact">>,
         propertyUri  |-> <<artifact_profile, "/props/", prop>>,
         value        |-> inferred.value,
         valueTypeUri |-> inferred.type,
         timestamp    |-> tstamp,
         triggerUri   |-> <<artifact_profile, "/actions/read">>]

NoPayload == [none |-> TRUE]

\* no _infer_value_and_type call is under way
NotCalled == <<"<not called>">>

\* lines 243-258: whether the forwarder goes on to notify the monitor of message m
Forwards(m, idx, areas) ==
    /\ m.type = "event"
    /\ m.event_type = "state_changed"
    /\ UsableEvent(m.entity_id, m.state)
    /\ AreaAllowed(LookupArea(idx, m.entity_id), areas)

----------------------------------------------------------------------------
(* The event forwarder task: _event_forwarder_task, _build_entity_area_map,  *)
(* _ws_handshake                                                            *)

\* a bound of the model: how many unreferenced open sockets are counted
MaxDangling == 2

BuildPcs == {"build_connect", "build_auth", "build_wait"}
LoopPcs == {"connect", "auth", "subscribe", "recv", "posting", "backoff"}

\* the locals of the receive loop, forgotten when the loop is left
LoopLocalsReset ==
    /\ curMsg' = NoMsg
    /\ verdict' = "none"
    /\ payload' = NoPayload
    /\ classified' = NotCalled
    /\ attempts' = 0

\* a step of the forwarder task touches nothing but the task's own state
OnlyForwarder == UNCHANGED <<cfgVars, hubReg, appVars, regVars, scriptVars>>

\* a connection cycle begins
CycleBegins == regChanged' = FALSE
CycleGoesOn == UNCHANGED regChanged

LoopLocalsSame == UNCHANGED <<curMsg, verdict, payload, classified, attempts>>
BuildLocalsSame == UNCHANGED <<buildPending, devices, entities>>

\* the task starts running: MONITOR_URL is set (line 229), so it calls
\* _build_entity_area_map, which calls _ws_handshake
FwdStart ==
    /\ OnlyForwarder
    /\ CycleBegins
    /\ fpc = "scheduled" /\ ~cancelReq
    /\ fpc' = "build_connect"
    /\ UNCHANGED <<taskResult, cancelReq, hsWs, buildWs, ws, dangling, index>>
    /\ BuildLocalsSame /\ LoopLocalsSame

\* the task ends: nothing of its frame is left
Terminate(result) ==
    /\ fpc' = "done"
    /\ taskResult' = result

\* _ws_handshake line 190, called from line 201: the connection is made
BuildConnectOk ==
    /\ OnlyForwarder
    /\ CycleGoesOn
    /\ fpc = "build_connect" /\ ~cancelReq
    /\ fpc' = "build_auth"
    /\ hsWs' = "open"
    /\ UNCHANGED <<taskResult, cancelReq, buildWs, ws, dangling, index>>
    /\ BuildLocalsSame /\ LoopLocalsSame

\* line 190 raises: the exception leaves line 232, which nothing guards
BuildConnectFail ==
    /\ OnlyForwarder
    /\ CycleGoesOn
    /\ fpc = "build_connect" /\ ~cancelReq
    /\ Terminate("exception")
    /\ UNCHANGED <<cancelReq, hsWs, buildWs, ws, dangling, index>>
    /\ BuildLocalsSame /\ LoopLocalsSame

\* lines 191-198 succeed, and lines 203-204 send the two registry requests
BuildAuthOk ==
    /\ OnlyForwarder
    /\ CycleGoesOn
    /\ fpc = "build_auth" /\ ~cancelReq
    /\ fpc' = "build_wait"
    /\ hsWs' = "none"
    /\ buildWs' = "open"
    /\ buildPending' = {1, 2}
    /\ devices' = 0
    /\ entities' = 0
    /\ UNCHANGED <<taskResult, cancelReq, ws, dangling, index>>
    /\ LoopLocalsSame

\* the handshake's socket when an exception leaves _ws_handshake after line 190:
\* nothing refers to it any more and the code does not close it, so it stays
\* open unless the hub has closed it
HandshakeAbandoned(peerClosed) ==
    /\ hsWs' = "none"
    /\ dangling' = IF peerClosed THEN dangling ELSE dangling + 1

\* lines 191-197 raise (a receive error, "Unexpected handshake", "Auth failed")
BuildAuthFail(peerClosed) ==
    /\ OnlyForwarder
    /\ CycleGoesOn
    /\ fpc = "build_auth" /\ ~cancelReq
    /\ peerClosed \/ dangling < MaxDangling
    /\ HandshakeAbandoned(peerClosed)
    /\ Terminate("exception")
    /\ UNCHANGED <<cancelReq, buildWs, ws, index>>
    /\ BuildLocalsSame /\ LoopLocalsSame

\* lines 206-212: the hub answers request id; an unsuccessful result is skipped
BuildResult(id, success) ==
    /\ OnlyForwarder
    /\ CycleGoesOn
    /\ fpc = "build_wait" /\ ~cancelReq
    /\ id \in buildPending
    /\ buildPending' = buildPending \ {id}
    /\ devices' = IF success /\ id = 1 THEN hubReg ELSE devices
    /\ entities' = IF success /\ id = 2 THEN hubReg ELSE entities
    /\ UNCHANGED <<fpc, taskResult, cancelReq, hsWs, buildWs, ws, dangling, index>>
    /\ LoopLocalsSame

\* lines 213-226 and 232-236: both lists are there; the maps are built, the
\* registry socket is closed and the forwarder enters its loop
BuildReturn ==
    /\ OnlyForwarder
    /\ CycleGoesOn
    /\ fpc = "build_wait" /\ ~cancelReq
    /\ devices # 0 /\ entities # 0
    /\ index' = BuildIndex(Registries[devices].devices, Registries[entities].entities)
    /\ buildWs' = "none"
    /\ fpc' = "connect"
    /\ UNCHANGED <<taskResult, cancelReq, hsWs, ws, dangling>>
    /\ BuildLocalsSame /\ LoopLocalsSame

\* line 207 raises (the stream fails): line 226 closes the socket and the
\* exception leaves line 232
BuildStreamError ==
    /\ OnlyForwarder
    /\ CycleGoesOn
    /\ fpc = "build_wait" /\ ~cancelReq
    /\ ~(devices # 0 /\ entities # 0)
    /\ buildWs' = "none"
    /\ Terminate("exception")
    /\ UNCHANGED <<cancelReq, hsWs, ws, dangling, index>>
    /\ BuildLocalsSame /\ LoopLocalsSame

\* line 238, _ws_handshake line 190: the connection is made
FwdConnectOk ==
    /\ OnlyForwarder
    /\ CycleGoesOn
    /\ fpc = "connect" /\ ~cancelReq
    /\ fpc' = "auth"
    /\ hsWs' = "open"
    /\ UNCHANGED <<taskResult, cancelReq, buildWs, ws, dangling, index>>
    /\ BuildLocalsSame /\ LoopLocalsSame

\* line 190 raises: line 298 catches it and line 300 sleeps
FwdConnectFail ==
    /\ OnlyForwarder
    /\ CycleGoesOn
    /\ fpc = "connect" /\ ~cancelReq
    /\ fpc' = "backoff"
    /\ UNCHANGED <<taskResult, cancelReq, hsWs, buildWs, ws, dangling, index>>
    /\ BuildLocalsSame /\ LoopLocalsSame

\* lines 191-198 succeed: line 238 binds ws
FwdAuthOk ==
    /\ OnlyForwarder
    /\ CycleGoesOn
    /\ fpc = "auth" /\ ~cancelReq
    /\ fpc' = "subscribe"
    /\ hsWs' = "none"
    /\ ws' = "open"
    /\ UNCHANGED <<taskResult, cancelReq, buildWs, dangling, index>>
    /\ BuildLocalsSame /\ LoopLocalsSame

\* lines 191-197 raise: ws of the loop is still None when line 298 catches it
FwdAuthFail(peerClosed) ==
    /\ OnlyForwarder
    /\ CycleGoesOn
    /\ fpc = "auth" /\ ~cancelReq
    /\ peerClosed \/ dangling < MaxDangling
    /\ HandshakeAbandoned(peerClosed)
    /\ fpc' = "backoff"
    /\ UNCHANGED <<taskResult, cancelReq, buildWs, ws, index>>
    /\ BuildLocalsSame /\ LoopLocalsSame

\* lines 239-240: the subscription is sent
FwdSubscribeOk ==
    /\ OnlyForwarder
    /\ CycleGoesOn
    /\ fpc = "subscribe" /\ ~cancelReq
    /\ fpc' = "recv"
    /\ UNCHANGED <<taskResult, cancelReq, hsWs, buildWs, ws, dangling, index>>
    /\ BuildLocalsSame /\ LoopLocalsSame

\* line 239 raises
FwdSubscribeFail ==
    /\ OnlyForwarder
    /\ CycleGoesOn
    /\ fpc = "subscribe" /\ ~cancelReq
    /\ fpc' = "backoff"
    /\ UNCHANGED <<taskResult, cancelReq, hsWs, buildWs, ws, dangling, index>>
    /\ BuildLocalsSame /\ LoopLocalsSame

\* lines 242-281: message m arrives; it is skipped, or its state is classified
\* and the notification built, and line 284 begins the POST
FwdRecv(m) ==
    /\ OnlyForwarder
    /\ CycleGoesOn
    /\ fpc = "recv" /\ ~cancelReq
    /\ curMsg' = m
    /\ attempts' = 0
    /\ IF Forwards(m, index, AREAS)
       THEN /\ classified' = m.state
            /\ payload' = Notification(index, LookupArea(index, m.entity_id),
                                       m.entity_id, m.device_class, m.state,
                                       m.time_fired)
            /\ verdict' = "posting"
            /\ fpc' = "posting"
       ELSE /\ classified' = NotCalled
            /\ payload' = NoPayload
            /\ verdict' = "skipped"
            /\ fpc' = "recv"
    /\ UNCHANGED <<taskResult, cancelReq, hsWs, buildWs, ws, dangling, index>>
    /\ BuildLocalsSame

\* line 242 raises (the stream fails, or the message is not JSON)
FwdRecvError ==
    /\ OnlyForwarder
    /\ CycleGoesOn
    /\ fpc = "recv" /\ ~cancelReq
    /\ fpc' = "backoff"
    /\ LoopLocalsReset
    /\ UNCHANGED <<taskResult, cancelReq, hsWs, buildWs, ws, dangling, index>>
    /\ BuildLocalsSame

\* FwdPostDone with a failed POST handled as a connection failure
FwdPostDone_FailureReconnects(ok) ==
    /\ OnlyForwarder
    /\ CycleGoesOn
    /\ fpc = "posting" /\ ~cancelReq
    /\ IF ok
       THEN /\ attempts' = attempts + 1
            /\ verdict' = "delivered"
            /\ payload' = NoPayload
            /\ classified' = NotCalled
            /\ fpc' = "recv"
            /\ UNCHANGED curMsg
       ELSE /\ fpc' = "backoff"
            /\ LoopLocalsReset
    /\ UNCHANGED <<taskResult, cancelReq, hsWs, buildWs, ws, dangling, index>>
    /\ BuildLocalsSame

\* FwdPostDone with a failed POST discarding the three maps
FwdPostDone_FailureDropsIndex(ok) ==
    /\ OnlyForwarder
    /\ CycleGoesOn
    /\ fpc = "posting" /\ ~cancelReq
    /\ attempts' = attempts + 1
    /\ verdict' = IF ok THEN "delivered" ELSE "failed"
    /\ payload' = NoPayload
    /\ classified' = NotCalled
    /\ fpc' = "recv"
    /\ index' = IF ok THEN index ELSE NoIndex
    /\ UNCHANGED <<curMsg>>
    /\ UNCHANGED <<taskResult, cancelReq, hsWs, buildWs, ws, dangling>>
    /\ BuildLocalsSame

\* lines 284-294: the POST ends, well (delivered) or not (line 293 logs it);
\* either way the loop goes back to line 242
FwdPostDone(ok) ==
    /\ OnlyForwarder
    /\ CycleGoesOn
    /\ fpc = "posting" /\ ~cancelReq
    /\ attempts' = attempts + 1
    /\ verdict' = IF ok THEN "delivered" ELSE "failed"
    /\ payload' = NoPayload
    /\ classified' = NotCalled
    /\ fpc' = "recv"
    /\ UNCHANGED <<curMsg>>
    /\ UNCHANGED <<taskResult, cancelReq, hsWs, buildWs, ws, dangling, index>>
    /\ BuildLocalsSame

\* lines 300-304, then 235-236: the sleep ends, the finally clause closes ws if
\* there is one, and the loop starts over
FwdBackoffDone ==
    /\ OnlyForwarder
    /\ CycleBegins
    /\ fpc = "backoff" /\ ~cancelReq
    /\ ws' = "none"
    /\ fpc' = "connect"
    /\ UNCHANGED <<taskResult, cancelReq, hsWs, buildWs, dangling, index>>
    /\ BuildLocalsSame /\ LoopLocalsSame

\* CancelledError is raised at the await the task is suspended in.
\*   before the first step: the task never runs;
\*   line 232: nothing catches it; line 226 closes the registry socket, but a
\*     handshake's socket is abandoned;
\*   lines 238-294: line 295 catches it and breaks, line 304 closes ws, and the
\*     task returns (the inner "except Exception" of line 293 does not catch
\*     CancelledError); a handshake's socket is abandoned;
\*   line 300: raised inside the handler of line 298, it leaves the task after
\*     line 304 has closed ws.
FwdCancelled ==
    /\ OnlyForwarder
    /\ CycleGoesOn
    /\ cancelReq
    /\ fpc \notin {"notcreated", "done"}
    /\ cancelReq' = FALSE
    /\ \/ /\ fpc \in {"scheduled", "build_connect", "build_wait"}
          /\ Terminate("cancelled")
          /\ buildWs' = "none"
          /\ UNCHANGED <<hsWs, ws, dangling>>
       \/ /\ fpc = "build_auth"
          /\ Terminate("cancelled")
          /\ HandshakeAbandoned(FALSE)
          /\ UNCHANGED <<buildWs, ws>>
       \/ /\ fpc \in {"connect", "subscribe", "recv", "posting"}
          /\ Terminate("returned")
          /\ ws' = "none"
          /\ UNCHANGED <<hsWs, buildWs, dangling>>
       \/ /\ fpc = "auth"
          /\ Terminate("returned")
          /\ HandshakeAbandoned(FALSE)
          /\ UNCHANGED <<buildWs, ws>>
       \/ /\ fpc = "backoff"
          /\ Terminate("cancelled")
          /\ ws' = "none"
          /\ UNCHANGED <<hsWs, buildWs, dangling>>
    /\ LoopLocalsReset
    /\ UNCHANGED index
    /\ BuildLocalsSame

----------------------------------------------------------------------------
(* The startup registration task: _register_known_artifacts_to_monitor *)

State(entity_id, state, device_class) ==
    [entity_id |-> entity_id, state |-> state, device_class |-> device_class,
     last_changed |-> "t0"]

\* what GET /api/states may answer
HubStateLists ==
    << <<State(E_light, S_on, Nil), State(E_sensor, S_unavailable, "temperature"),
         State(E_switch, S_on, Nil)>>,
       <<State(E_light, S_unknown, Nil), State(E_sensor, S_21, "temperature"),
         State(None, S_on, Nil), State(E_light, None, Nil)>> >>

\* lines 345-351: whether the registration goes on to notify the monitor of st
RegForwards(st, idx, areas) ==
    /\ LookupArea(idx, st.entity_id) # Nil
    /\ LookupArea(idx, st.entity_id) \in areas
    /\ st.state \notin {None, S_unknown, S_unavailable}

\* a step of the registration task touches nothing but the task's own state
OnlyRegistration == UNCHANGED <<cfgVars, hubReg, regChanged, appVars, fwdVars, scriptVars>>

\* line 338: nothing to do without a monitor or without an allow-list
RegStartDisabled ==
    /\ OnlyRegistration
    /\ rpc = "scheduled"
    /\ (MONITOR_URL = "" \/ AREAS = {})
    /\ rpc' = "done"
    /\ UNCHANGED <<rIndex, rStates, ri, rPayload, rClassified>>

\* lines 341-342 succeed: the maps are built from the hub's registry and the
\* states are fetched
RegFetched(k) ==
    /\ OnlyRegistration
    /\ rpc = "scheduled"
    /\ MONITOR_URL # "" /\ AREAS # {}
    /\ rIndex' = BuildIndex(Registries[hubReg].devices, Registries[hubReg].entities)
    /\ rStates' = k
    /\ ri' = 1
    /\ rpc' = "iterate"
    /\ UNCHANGED <<rPayload, rClassified>>

\* lines 341-342 raise: line 389 catches it
RegFetchFailed ==
    /\ OnlyRegistration
    /\ rpc = "scheduled"
    /\ MONITOR_URL # "" /\ AREAS # {}
    /\ rpc' = "done"
    /\ UNCHANGED <<rIndex, rStates, ri, rPayload, rClassified>>

\* lines 344-378: the next state is skipped, or classified and its POST begun
RegIterate ==
    /\ OnlyRegistration
    /\ rpc = "iterate"
    /\ ri <= Len(HubStateLists[rStates])
    /\ LET st == HubStateLists[rStates][ri]
       IN  IF RegForwards(st, rIndex, AREAS)
           THEN /\ rClassified' = st.state
                /\ rPayload' = Notification(rIndex, LookupArea(rIndex, st.entity_id),
                                            st.entity_id, st.device_class, st.state,
                                            st.last_changed)
                /\ rpc' = "posting"
                /\ ri' = ri
           ELSE /\ rClassified' = NotCalled
                /\ rPayload' = NoPayload
                /\ rpc' = "iterate"
                /\ ri' = ri + 1
    /\ UNCHANGED <<rIndex, rStates>>

\* lines 378-388: the POST ends, well or not; the loop goes on
RegPostDone ==
    /\ OnlyRegistration
    /\ rpc = "posting"
    /\ rpc' = "iterate"
    /\ ri' = ri + 1
    /\ rPayload' = NoPayload
    /\ rClassified' = NotCalled
    /\ UNCHANGED <<rIndex, rStates>>

\* the loop is over
RegFinished ==
    /\ OnlyRegistration
    /\ rpc = "iterate"
    /\ ri > Len(HubStateLists[rStates])
    /\ rpc' = "done"
    /\ UNCHANGED <<rIndex, rStates, ri, rPayload, rClassified>>


----------------------------------------------------------------------------
(* The application: _startup_forwarder, _shutdown, the hub *)

\* a startup handler that creates the forwarder task whatever MONITOR_URL is
StartupForwarder_AlwaysSchedules ==
    /\ apc = "starting"
    /\ apc' = "running"
    /\ rpc' = "scheduled"
    /\ monitor_resets' = IF MONITOR_URL # "" THEN {"startup"} ELSE {}
    /\ forward_task' = "task" /\ fpc' = "scheduled"
    /\ UNCHANGED <<spc, resetResult, ha_client_ws, ha_rest>>
    /\ UNCHANGED <<taskResult, cancelReq, hsWs, buildWs, ws, dangling, index>>
    /\ UNCHANGED <<buildPending, devices, entities>>
    /\ UNCHANGED <<curMsg, verdict, payload, classified, attempts>>
    /\ UNCHANGED <<rIndex, rStates, ri, rPayload, rClassified>>
    /\ UNCHANGED <<cfgVars, hubReg, regChanged, scriptVars>>

\* lines 392-407: the startup handler creates the tasks.  The reset task of
\* line 396 shares nothing with the others, so its first step is taken here:
\* it returns (line 324), or goes on to _post_with_retries
StartupForwarder ==
    /\ apc = "starting"
    /\ apc' = "running"
    /\ rpc' = "scheduled"
    /\ monitor_resets' = IF MONITOR_URL # "" THEN {"startup"} ELSE {}
    /\ IF MONITOR_URL # ""
       THEN forward_task' = "task" /\ fpc' = "scheduled"
       ELSE UNCHANGED <<forward_task, fpc>>
    /\ UNCHANGED <<spc, resetResult, ha_client_ws, ha_rest>>
    /\ UNCHANGED <<taskResult, cancelReq, hsWs, buildWs, ws, dangling, index>>
    /\ BuildLocalsSame /\ LoopLocalsSame
    /\ UNCHANGED <<rIndex, rStates, ri, rPayload, rClassified>>
    /\ UNCHANGED <<cfgVars, hubReg, regChanged, scriptVars>>

\* a request handler calls the shared hub client, which connects on first use
UseHubClient ==
    /\ apc = "running"
    /\ ha_client_ws = "none"
    /\ ha_client_ws' = "open"
    /\ UNCHANGED <<apc, forward_task, spc, resetResult, monitor_resets, ha_rest>>
    /\ UNCHANGED <<cfgVars, hubReg, regChanged, fwdVars, regVars, scriptVars>>

\* the hub's registry changes (an entity or device is moved or renamed)
RegistryChange ==
    /\ apc = "running"
    /\ \E r \in RegIds : r # hubReg /\ hubReg' = r
    /\ regChanged' = TRUE
    /\ UNCHANGED <<cfgVars, appVars, fwdVars, regVars, scriptVars>>

\* lines 70-73: the shutdown handler cancels the forwarder task, if there is one
ShutdownBegin ==
    /\ apc = "running"
    /\ apc' = "shutdown"
    /\ IF forward_task = "task"
       THEN /\ cancelReq' = (fpc # "done")
            /\ spc' = "await_task"
       ELSE /\ cancelReq' = cancelReq
            /\ spc' = "resets"
    /\ UNCHANGED <<forward_task, resetResult, monitor_resets, ha_client_ws, ha_rest>>
    /\ UNCHANGED <<fpc, taskResult, hsWs, buildWs, ws, dangling, index>>
    /\ BuildLocalsSame /\ LoopLocalsSame
    /\ UNCHANGED <<cfgVars, hubReg, regChanged, regVars, scriptVars>>

\* lines 74-75: the await ends when the task is done, whatever its outcome
ShutdownAwaited ==
    /\ spc = "await_task"
    /\ fpc = "done"
    /\ spc' = "resets"
    /\ UNCHANGED <<apc, forward_task, resetResult, monitor_resets, ha_client_ws, ha_rest>>
    /\ UNCHANGED <<cfgVars, hubReg, regChanged, fwdVars, regVars, scriptVars>>

\* lines 77-84: the two reset calls, which may fail
ShutdownResets(ok) ==
    /\ spc = "resets"
    /\ resetResult' = IF ok THEN "ok" ELSE "failed"
    /\ monitor_resets' = IF MONITOR_URL # "" THEN monitor_resets \cup {"shutdown"}
                                              ELSE monitor_resets
    /\ spc' = "close"
    /\ UNCHANGED <<apc, forward_task, ha_client_ws, ha_rest>>
    /\ UNCHANGED <<cfgVars, hubReg, regChanged, fwdVars, regVars, scriptVars>>

\* lines 85-86: the shared connections are closed
ShutdownClose ==
    /\ spc = "close"
    /\ ha_client_ws' = "none"
    /\ ha_rest' = "closed"
    /\ spc' = "done"
    /\ UNCHANGED <<apc, forward_task, resetResult, monitor_resets>>
    /\ UNCHANGED <<cfgVars, hubReg, regChanged, fwdVars, regVars, scriptVars>>

----------------------------------------------------------------------------
(* set-property.py: the service catalog and select_service *)

SN_set_value == <<"s", "e", "t", "_", "v", "a", "l", "u", "e">>
SN_turn_on == <<"t", "u", "r", "n", "_", "o", "n">>
SN_turn_off == <<"t", "u", "r", "n", "_", "o", "f", "f">>
SN_toggle == <<"t", "o", "g", "g", "l", "e">>
SN_update_entity == <<"u", "p", "d", "a", "t", "e", "_", "e", "n", "t", "i", "t", "y">>
SN_open_cover == <<"o", "p", "e", "n", "_", "c", "o", "v", "e", "r">>
SN_close_cover == <<"c", "l", "o", "s", "e", "_", "c", "o", "v", "e", "r">>
SN_set_cover_position == <<"s", "e", "t", "_", "c", "o", "v", "e", "r", "_", "p", "o", "s", "i", "t", "i", "o", "n">>
SN_reset == <<"r", "e", "s", "e", "t">>

\* a service's description: the names of its fields, and the domain lists of its
\* target's entity entries
Meta(fields, target) == [fields |-> fields, target |-> target]
Svc(name, fields, target) == [name |-> name, meta |-> Meta(fields, target)]
Dom(domain, svcs) == [domain |-> domain, services |-> svcs]

\* the catalogs GET /api/services may answer: a list of domains, each with its
\* services in the order of the answer
Catalogs ==
    << \* a hub with the virtual integration
       << Dom(D_homeassistant, <<Svc(SN_update_entity, {"entity_id"}, <<>>),
                                 Svc(SN_toggle, {}, <<{D_light, D_switch, D_cover}>>)>>),
          Dom(D_light, <<Svc(SN_turn_on, {"brightness"}, <<{D_light}>>),
                         Svc(SN_turn_off, {}, <<{D_light}>>)>>),
          Dom(D_input_number, <<Svc(SN_set_value, {"value"}, <<{D_input_number}>>)>>),
          Dom(D_cover, <<Svc(SN_set_cover_position, {"position"}, <<{D_cover}>>),
                         Svc(SN_open_cover, {}, <<{D_cover}>>)>>),
          Dom(D_virtual, <<Svc(SN_set_value, {"value"}, <<{D_light}, {D_sensor, D_switch}>>),
                           Svc(SN_reset, {"entity_id", "state"}, <<>>)>>) >>,
       \* a hub whose services are all described the legacy way
       << Dom(D_sensor, <<Svc(SN_set_value, {"entity_id", "value"}, <<>>),
                          Svc(SN_reset, {"entity_id", "brightness"}, <<>>)>>),
          Dom(D_cover, <<Svc(SN_close_cover, {"entity_id"}, <<>>),
                         Svc(SN_set_cover_position, {"entity_id", "position"}, <<>>)>>),
          Dom(D_homeassistant, <<Svc(SN_update_entity, {"entity_id"}, <<>>)>>) >>,
       \* a hub with no service
       << >>,
       \* a hub whose setters are described alike
       << Dom(D_input_number, <<Svc(SN_set_value, {"entity_id", "value"}, <<>>),
                                Svc(SN_update_entity, {"entity_id"}, <<>>)>>),
          Dom(D_cover, <<Svc(SN_set_cover_position, {"entity_id", "value"}, <<>>),
                         Svc(SN_set_value, {"entity_id", "value"}, <<>>)>>) >> >>

SelEntities == {E_light, E_switch, E_fan, E_bool, E_cover, E_sensor}
Props == {"state", "brightness", "value"}

Choice(domain, name, fields, score) ==
    [domain |-> domain, name |-> name, fields |-> fields, score |-> score]
NoChoice == Choice(<<>>, <<>>, {}, 0)

on_values == {W_on, W_true, W_1, W_open}
off_values == {W_off, W_false, W_0, W_closed, W_close}

\* a Phase A that gives cover the on/off words of the other domains
PhaseA_CoverTakesOnOffWords(p, ent_domain, value) ==
    LET desired == Desired(value)
        svc == IF desired \in on_values THEN SN_turn_on
               ELSE IF desired \in off_values THEN SN_turn_off ELSE <<>>
        cover_svc == IF desired \in on_values THEN SN_open_cover
                     ELSE IF desired \in off_values THEN SN_close_cover ELSE <<>>
    IN  IF p = "state" /\ ent_domain \in {D_light, D_switch, D_fan, D_input_boolean}
           /\ svc # <<>>
        THEN Choice(ent_domain, svc, {"entity_id"}, 100)
        ELSE IF p = "state" /\ ent_domain = D_cover /\ cover_svc # <<>>
        THEN Choice(ent_domain, cover_svc, {"entity_id"}, 100)
        ELSE NoChoice

\* lines 158-169: the service for an on/off style state change, or NoChoice
PhaseA(p, ent_domain, value) ==
    LET desired == Desired(value)
        svc == IF desired \in on_values THEN SN_turn_on
               ELSE IF desired \in off_values THEN SN_turn_off ELSE <<>>
        cover_svc == IF desired \in {W_open} THEN SN_open_cover
                     ELSE IF desired \in {W_closed, W_close} THEN SN_close_cover
                     ELSE <<>>
    IN  IF p = "state" /\ ent_domain \in {D_light, D_switch, D_fan, D_input_boolean}
           /\ svc # <<>>
        THEN Choice(ent_domain, svc, {"entity_id"}, 100)
        ELSE IF p = "state" /\ ent_domain = D_cover /\ cover_svc # <<>>
        THEN Choice(ent_domain, cover_svc, {"entity_id"}, 100)
        ELSE NoChoice

\* an applicability rule that knows only the entity_id field
Applies_LegacyOnly(meta, ent_domain) ==
    "entity_id" \in meta.fields

\* lines 175-180: the service is described as applying to the entity's domain
Applies(meta, ent_domain) ==
    LET legacy_applies == "entity_id" \in meta.fields
        modern_applies == \E i \in DOMAIN meta.target : ent_domain \in meta.target[i]
    IN  legacy_applies \/ modern_applies

\* lines 181-195
Score(dom, name, fields, p, ent_domain) ==
    (IF dom = D_virtual THEN 5 ELSE 0)
    + (IF Contains(name, W_set) THEN 3 ELSE 0)
    + (IF p \in fields THEN 3 ELSE 0)
    + (IF p = "state" /\ "value" \in fields THEN 2 ELSE 0)
    + (IF dom = ent_domain THEN 1 ELSE 0)

\* lines 174-197 for the services of one domain, from service j on
RECURSIVE ServiceLoop(_, _, _, _, _)
ServiceLoop(dom, svcs, j, p, ent_domain) ==
    IF j > Len(svcs) THEN <<>>
    ELSE LET name == svcs[j].name
             meta == svcs[j].meta
             score == Score(dom, name, meta.fields, p, ent_domain)
         IN  (IF Applies(meta, ent_domain) /\ score > 0
              THEN <<Choice(dom, name, meta.fields, score)>> ELSE <<>>)
             \o ServiceLoop(dom, svcs, j + 1, p, ent_domain)

\* lines 170-197: the candidates, in the catalog's order, from domain i on
RECURSIVE CatalogLoop(_, _, _, _)
CatalogLoop(catalog, i, p, ent_domain) ==
    IF i > Len(catalog) THEN <<>>
    ELSE ServiceLoop(catalog[i].domain, catalog[i].services, 1, p, ent_domain)
         \o CatalogLoop(catalog, i + 1, p, ent_domain)

\* an insertion that puts c before the entries of its score
RECURSIVE InsertByScore_BeforeTies(_, _)
InsertByScore_BeforeTies(sorted, c) ==
    IF sorted = <<>> THEN <<c>>
    ELSE IF Head(sorted).score > c.score
         THEN <<Head(sorted)>> \o InsertByScore_BeforeTies(Tail(sorted), c)
         ELSE <<c>> \o sorted

\* c put into a list sorted by descending score, after the entries of its score
RECURSIVE InsertByScore(_, _)
InsertByScore(sorted, c) ==
    IF sorted = <<>> THEN <<c>>
    ELSE IF Head(sorted).score >= c.score
         THEN <<Head(sorted)>> \o InsertByScore(Tail(sorted), c)
         ELSE <<c>> \o sorted

\* line 200: candidates.sort(key=score, reverse=True), a stable sort
RECURSIVE SortByScore(_)
SortByScore(cands) ==
    IF cands = <<>> THEN <<>>
    ELSE InsertByScore(SortByScore(SubSeq(cands, 1, Len(cands) - 1)), cands[Len(cands)])

\* no set-property.py run is looked at
SelIdle ==
    /\ sel_pc = "idle"
    /\ chosen_entity_id = <<>>
    /\ argv_prop = ""
    /\ raw_value = <<>>
    /\ services = 0
    /\ scored = FALSE
    /\ candidates = <<>>
    /\ chosen = NoChoice

\* a run that has resolved its entity and fetched the catalog (lines 88-154)
SelInit ==
    /\ sel_pc = "args"
    /\ chosen_entity_id \in SelEntities
    /\ argv_prop \in Props
    /\ raw_value \in RawValues
    /\ services \in DOMAIN Catalogs
    /\ scored = FALSE
    /\ candidates = <<>>
    /\ chosen = NoChoice

\* lines 156-206: chosen = select_service()
SelectService ==
    /\ sel_pc = "args"
    /\ LET ent_domain == DomainOf(chosen_entity_id)
           value == ParseValue(raw_value)
           shortcut == PhaseA(argv_prop, ent_domain, value)
           sorted == SortByScore(CatalogLoop(Catalogs[services], 1, argv_prop, ent_domain))
       IN  IF shortcut # NoChoice
           THEN /\ chosen' = shortcut
                /\ scored' = FALSE
                /\ candidates' = <<>>
           ELSE /\ scored' = TRUE
                /\ candidates' = sorted
                /\ chosen' = IF sorted = <<>> THEN NoChoice ELSE sorted[1]
    /\ sel_pc' = "selected"
    /\ UNCHANGED <<chosen_entity_id, argv_prop, raw_value, services>>
    /\ UNCHANGED runVars
    /\ UNCHANGED <<adapterVars, accVars, clsVars, handlerVars>>

\* payload[k] = v
DictSet(d, k, v) == [x \in DOMAIN d \cup {k} |-> IF x = k THEN v ELSE d[x]]

\* lines 208-222: the payload of the call of the chosen service
ServicePayload(ent, p, value, fields) ==
    LET base == DictSet(EmptyMap, "entity_id", StrValue(ent))
    IN  IF p = "state"
        THEN (IF "value" \in fields THEN DictSet(base, "value", value) ELSE base)
        ELSE DictSet(base, p, value)

\* "domain.name", as lines 225 and 232 print it
ServiceText(c) == c.domain \o <<".">> \o c.name

\* nothing is printed as the result yet
NotPrinted == <<"<not printed>">>

\* what the hub may hold as the entity's state object
HubEntityStates ==
    << [state |-> StrValue(S_on),
        attributes |-> [brightness |-> IntValue(10), friendly_name |-> StrValue(N_lamp)]],
       [state |-> StrValue(S_21), attributes |-> EmptyMap] >>

NoStatePayload == [state |-> NullValue, attributes |-> EmptyMap]

\* a body that holds no attribute but the one set
StatePayload_DropsOtherAttributes(cur, p, value) ==
    [state |-> IF p = "state" THEN value ELSE cur.state,
     attributes |-> IF p # "state" THEN DictSet(EmptyMap, p, value) ELSE cur.attributes]

\* lines 242-249: the body of the direct state set
StatePayload(cur, p, value) ==
    LET current_state == cur.state
        current_attrs == cur.attributes
        new_state == IF p = "state" THEN value ELSE current_state
        new_attrs == IF p # "state" THEN DictSet(current_attrs, p, value) ELSE current_attrs
    IN  [state |-> new_state, attributes |-> new_attrs]

\* no run has got past select_service
RunIdle ==
    /\ request = EmptyMap
    /\ current = 0
    /\ payload_state = NoStatePayload
    /\ writes = <<>>
    /\ used_service = NotPrinted

OnlyRun(changed) ==
    /\ UNCHANGED <<chosen_entity_id, argv_prop, raw_value, services, scored, candidates, chosen>>
    /\ changed
    /\ UNCHANGED <<adapterVars, accVars, clsVars, handlerVars>>

\* lines 207-227: a service was chosen; its payload is built and the call sent
CallService ==
    /\ sel_pc = "selected"
    /\ chosen # NoChoice
    /\ request' = ServicePayload(chosen_entity_id, argv_prop, ParseValue(raw_value),
                                 chosen.fields)
    /\ writes' = Append(writes, "service")
    /\ sel_pc' = "calling"
    /\ OnlyRun(UNCHANGED <<current, payload_state, used_service>>)

\* a service call that, failing, goes on to the direct state set
CallDone_FailureFallsBack(ok) ==
    /\ sel_pc = "calling"
    /\ IF ok
       THEN /\ used_service' = ServiceText(chosen)
            /\ sel_pc' = "done"
       ELSE /\ used_service' = used_service
            /\ sel_pc' = "state_get"
    /\ OnlyRun(UNCHANGED <<request, current, payload_state, writes>>)

\* lines 227-237: the call ends; a status of 400 or more (line 230) or an
\* exception of the POST ends the run, else the result is printed
CallDone(ok) ==
    /\ sel_pc = "calling"
    /\ IF ok
       THEN /\ used_service' = ServiceText(chosen)
            /\ sel_pc' = "done"
       ELSE /\ used_service' = used_service
            /\ sel_pc' = "failed"
    /\ OnlyRun(UNCHANGED <<request, current, payload_state, writes>>)

\* lines 207 and 240: nothing was chosen; the entity's state is asked for
FallbackGet ==
    /\ sel_pc = "selected"
    /\ chosen = NoChoice
    /\ sel_pc' = "state_get"
    /\ OnlyRun(UNCHANGED runVars)

\* lines 240-251: the hub answers with state object k, and the direct state set
\* is sent
FallbackGot(k) ==
    /\ sel_pc = "state_get"
    /\ current' = k
    /\ payload_state' = StatePayload(HubEntityStates[k], argv_prop, ParseValue(raw_value))
    /\ writes' = Append(writes, "state")
    /\ sel_pc' = "state_post"
    /\ OnlyRun(UNCHANGED <<request, used_service>>)

\* line 240 or 241 raises (the hub has no state for the entity): the run ends
FallbackGetFailed ==
    /\ sel_pc = "state_get"
    /\ sel_pc' = "failed"
    /\ OnlyRun(UNCHANGED runVars)

\* lines 251-255: the direct state set ends; a status of 400 or more (line 254)
\* or an exception ends the run, else the result is printed without a service
FallbackPosted(ok) ==
    /\ sel_pc = "state_post"
    /\ IF ok
       THEN /\ used_service' = None
            /\ sel_pc' = "done"
       ELSE /\ used_service' = used_service
            /\ sel_pc' = "failed"
    /\ OnlyRun(UNCHANGED <<request, current, payload_state, writes>>)

----------------------------------------------------------------------------
(* adjust_lux_on_events.py: values and _delta_from_event *)

S_off == W_off
S_opening == <<"o", "p", "e", "n", "i", "n", "g">>
S_open == W_open
S_closing == <<"c", "l", "o", "s", "i", "n", "g">>
S_closed == W_closed
S_stopped == <<"s", "t", "o", "p", "p", "e", "d">>
S_40 == <<"4", "0">>
S_20 == <<"2", "0">>
S_2_5 == <<"2", ".", "5">>
S_minus30 == <<"-", "3", "0">>
S_70 == <<"7", "0">>
S_abc == <<"a", "b", "c">>
E_nodot == <<"l", "i", "g", "h", "t">>

\* float(text): the value in tenths, or a ValueError.  Of Python's float
\* grammar, decimal numbers with at most one fraction digit are parsed; the
\* sensor never holds another number here.
ParseFloat(text) ==
    LET t == Strip(text)
        signed == t # <<>> /\ Head(t) \in {"-", "+"}
        body == IF signed THEN Tail(t) ELSE t
        dot == FindFrom(body, ".", 1)
        ip == IF dot = 0 THEN body ELSE SubSeq(body, 1, dot - 1)
        fp == IF dot = 0 THEN <<>> ELSE SubSeq(body, dot + 1, Len(body))
        ok == /\ ip \o fp # <<>>
              /\ \A i \in DOMAIN ip : ip[i] \in DigitSet
              /\ \A i \in DOMAIN fp : fp[i] \in DigitSet
              /\ Len(fp) <= 1
        magnitude == 10 * DigitsValue(ip) + DigitsValue(fp)
    IN  [ok |-> ok,
         v |-> IF ~ok THEN 0
               ELSE IF signed /\ Head(t) = "-" THEN 0 - magnitude ELSE magnitude]

\* lines 181-184: float(cur_val_raw), 0.0 when that raises
CurVal(cur_val_raw) ==
    IF ParseFloat(cur_val_raw).ok THEN ParseFloat(cur_val_raw).v ELSE 0

\* the text of a float with one fraction digit (repr), as the hub stores a
\* number written as the state
FloatText(v) ==
    LET m == IF v < 0 THEN 0 - v ELSE v
    IN  (IF v < 0 THEN <<"-">> ELSE <<>>)
        \o NatText(m \div 10) \o <<".">> \o NatText(m % 10)

\* a new value that is not floored
NewVal_NotFloored(cur, d) == cur + d

\* line 185: max(0.0, cur_val + float(delta))
NewVal(cur, d) == IF cur + d > 0 THEN cur + d ELSE 0

\* int(x) for an attribute value: the number, or an error
PyInt(x) ==
    CASE x.kind = "int"  -> [ok |-> TRUE, n |-> x.n]
      [] x.kind = "bool" -> [ok |-> TRUE, n |-> IF x.b THEN 1 ELSE 0]
      [] x.kind = "str"  ->
            LET t == Strip(x.s)
                d == IF t # <<>> /\ Head(t) \in {"-", "+"} THEN Tail(t) ELSE t
                ok == d # <<>> /\ \A i \in DOMAIN d : d[i] \in DigitSet
            IN  [ok |-> ok,
                 n |-> IF ~ok THEN 0
                       ELSE IF Head(t) = "-" THEN 0 - DigitsValue(d) ELSE DigitsValue(d)]
      [] OTHER -> [ok |-> FALSE, n |-> 0]

\* a message of the stream: its type, and of a state_changed event the entity,
\* the new state (None when there is none) with its current_position attribute,
\* whether there is an old state, and the old state's current_position
AccMsg(type, ent, state, pos, has_old, old_pos) ==
    [type |-> type, entity_id |-> ent, state |-> state, current_position |-> pos,
     has_old |-> has_old, old_position |-> old_pos]

NoAccMsg == AccMsg("none", <<>>, None, NullValue, FALSE, NullValue)

\* the messages the hub sends; its light and cover states are lower-case words
AccMessages ==
    {AccMsg("result", <<>>, None, NullValue, FALSE, NullValue)}
    \cup {AccMsg("event", E_light, st, NullValue, old, NullValue) :
            st \in {S_on, S_off, S_unavailable, None}, old \in BOOLEAN}
    \cup {AccMsg("event", e, S_on, NullValue, TRUE, NullValue) :
            e \in {E_switch, E_sensor, E_nodot}}
    \cup {AccMsg("event", E_cover, st, IntValue(70), TRUE, IntValue(30)) :
            st \in {S_opening, S_open, S_closing, S_closed, S_stopped}}
    \cup {AccMsg("event", E_cover, S_stopped, pos, TRUE, old_pos) :
            pos \in {IntValue(30), IntValue(50), StrValue(S_70), StrValue(S_abc), NullValue},
            old_pos \in {IntValue(50), NullValue}}
    \cup {AccMsg("event", E_cover, S_stopped, IntValue(70), FALSE, NullValue)}

\* a _delta_from_event for which a light going off adds the increment
DeltaFromEvent_LightOffAdds(ev, il, dl, ib, db) ==
    LET ent == ev.entity_id
        state == Lower(IF ev.state = None THEN <<>> ELSE ev.state)
        domain == IF FindFrom(ent, ".", 1) # 0 THEN DomainOf(ent) ELSE <<>>
        new_pos == PyInt(ev.current_position)
        old_pos == PyInt(ev.old_position)
    IN  IF domain = D_light /\ state \in {S_on, S_off} THEN il
        ELSE IF domain # D_cover THEN 0
        ELSE IF state \in {S_opening, S_open} THEN ib
        ELSE IF state \in {S_closing, S_closed} THEN 0 - db
        ELSE IF ~new_pos.ok \/ ~ev.has_old \/ ~old_pos.ok THEN 0
        ELSE IF new_pos.n > old_pos.n THEN ib
        ELSE IF new_pos.n < old_pos.n THEN 0 - db
        ELSE 0

\* a _delta_from_event that takes a missing old position for 0
DeltaFromEvent_MissingOldIsZero(ev, il, dl, ib, db) ==
    LET ent == ev.entity_id
        state == Lower(IF ev.state = None THEN <<>> ELSE ev.state)
        domain == IF FindFrom(ent, ".", 1) # 0 THEN DomainOf(ent) ELSE <<>>
        new_pos == PyInt(ev.current_position)
        old_pos == PyInt(ev.old_position)
    IN  IF domain = D_light /\ state = S_on THEN il
        ELSE IF domain = D_light /\ state = S_off THEN 0 - dl
        ELSE IF domain # D_cover THEN 0
        ELSE IF state \in {S_opening, S_open} THEN ib
        ELSE IF state \in {S_closing, S_closed} THEN 0 - db
        ELSE IF ~new_pos.ok THEN 0
        ELSE IF new_pos.n > old_pos.n THEN ib
        ELSE IF new_pos.n < old_pos.n THEN 0 - db
        ELSE 0

\* lines 123-150, with the numbers in tenths
DeltaFromEvent(ev, il, dl, ib, db) ==
    LET ent == ev.entity_id
        state == Lower(IF ev.state = None THEN <<>> ELSE ev.state)
        domain == IF FindFrom(ent, ".", 1) # 0 THEN DomainOf(ent) ELSE <<>>
        new_pos == PyInt(ev.current_position)
        old_pos == PyInt(ev.old_position)
    IN  IF domain = D_light /\ state = S_on THEN il
        ELSE IF domain = D_light /\ state = S_off THEN 0 - dl
        ELSE IF domain # D_cover THEN 0
        ELSE IF state \in {S_opening, S_open} THEN ib
        ELSE IF state \in {S_closing, S_closed} THEN 0 - db
        ELSE IF ~new_pos.ok THEN 0
        ELSE IF ~ev.has_old THEN 0
        ELSE IF ~old_pos.ok THEN 0
        ELSE IF new_pos.n > old_pos.n THEN ib
        ELSE IF new_pos.n < old_pos.n THEN 0 - db
        ELSE 0

\* a score that gives the virtual namespace less than a setter's name
SetScore_VirtualWeighsLess(dom, svc) ==
    LET fields == svc.meta.fields
        target == svc.meta.target
        legacy == "entity_id" \in fields
        modern == \E i \in DOMAIN target : D_sensor \in target[i]
    IN  IF ~(legacy \/ modern) THEN 0
        ELSE (IF dom = D_virtual THEN 2 ELSE 0)
             + (IF Contains(svc.name, W_set) \/ "value" \in fields THEN 3 ELSE 0)

\* lines 80-88 for one service: the score, or 0 when it does not apply to a sensor
SetScore(dom, svc) ==
    LET fields == svc.meta.fields
        target == svc.meta.target
        legacy == "entity_id" \in fields
        modern == \E i \in DOMAIN target : D_sensor \in target[i]
    IN  IF ~(legacy \/ modern) THEN 0
        ELSE (IF dom = D_virtual THEN 5 ELSE 0)
             + (IF Contains(svc.name, W_set) \/ "value" \in fields THEN 3 ELSE 0)

\* lines 73-90: best after the services from service j of domain i on
RECURSIVE PickLoop(_, _, _, _)
PickLoop(catalog, i, j, best) ==
    IF i > Len(catalog) THEN best
    ELSE IF j > Len(catalog[i].services) THEN PickLoop(catalog, i + 1, 1, best)
    ELSE LET svc == catalog[i].services[j]
             score == SetScore(catalog[i].domain, svc)
         IN  PickLoop(catalog, i, j + 1,
                      IF score > 0 /\ (best = NoChoice \/ score > best.score)
                      THEN Choice(catalog[i].domain, svc.name, svc.meta.fields, score)
                      ELSE best)

\* _pick_set_service: the service to set the sensor with, or NoChoice
PickSetService(catalog) == PickLoop(catalog, 1, 1, NoChoice)

----------------------------------------------------------------------------
(* adjust_lux_on_events.py: main *)

\* a bound of the model: how many triggering events a run is followed through
MaxAdjustments == 3

\* the configurations: the defaults (lines 157-160), and one with decrements of
\* their own and no blinds increment
AccConfigs == {<<1000, 1000, 500, 500>>, <<100, 500, 0, 300>>}

InitialSensor == {S_40, S_20, S_2_5, S_unknown}

\* the messages a run of main is followed through
AccRunMessages ==
    {AccMsg("result", <<>>, None, NullValue, FALSE, NullValue),
     AccMsg("event", E_light, S_on, NullValue, TRUE, NullValue),
     AccMsg("event", E_light, S_off, NullValue, TRUE, NullValue),
     AccMsg("event", E_cover, S_closing, IntValue(70), TRUE, IntValue(30)),
     AccMsg("event", E_sensor, S_on, NullValue, TRUE, NullValue)}

\* the catalogs a run of main is followed with: one with a service to set the
\* sensor with, and one without
AccCatalogs == {1, 3}
ExternalValues == {S_minus30, S_70}

\* no accumulator is looked at
AccIdle ==
    /\ acc_pc = "idle"
    /\ inc_light = 0 /\ dec_light = 0 /\ inc_blinds = 0 /\ dec_blinds = 0
    /\ acc_services = 0
    /\ hub_sensor = <<>>
    /\ acc_msg = NoAccMsg
    /\ delta = 0 /\ cur_val = 0 /\ new_val = 0
    /\ seen = <<>>
    /\ written = <<>>
    /\ fold = 0
    /\ adjustments = 0
    /\ dropped = FALSE /\ external = FALSE /\ lost = FALSE
    /\ acc_ws = "none"

\* lines 153-170: the accumulator is configured, has fetched the catalog and is
\* subscribed
AccInit ==
    /\ acc_pc = "recv"
    /\ \E c \in AccConfigs :
          inc_light = c[1] /\ dec_light = c[2] /\ inc_blinds = c[3] /\ dec_blinds = c[4]
    /\ acc_services \in AccCatalogs
    /\ hub_sensor \in InitialSensor
    /\ acc_msg = NoAccMsg
    /\ delta = 0 /\ cur_val = 0 /\ new_val = 0
    /\ seen = <<>>
    /\ written = <<>>
    /\ fold = CurVal(hub_sensor)
    /\ adjustments = 0
    /\ dropped = FALSE /\ external = FALSE /\ lost = FALSE
    /\ acc_ws = "open"

AccConfigSame == UNCHANGED <<inc_light, dec_light, inc_blinds, dec_blinds, acc_services>>
OnlyAccumulator ==
    AccConfigSame /\ UNCHANGED <<adapterVars, selVars, runVars, clsVars, handlerVars>>
\* a step of the loop, on the stream it is subscribed to
OnStream == OnlyAccumulator /\ UNCHANGED acc_ws

\* lines 172-179: message m arrives; unless it is skipped (lines 174, 177) the
\* sensor's state is asked for
AccRecv(m) ==
    /\ acc_pc = "recv"
    /\ LET d == IF m.type # "event" THEN 0
                ELSE DeltaFromEvent(m, inc_light, dec_light, inc_blinds, dec_blinds)
       IN  /\ d # 0 => adjustments < MaxAdjustments
           /\ acc_msg' = m
           /\ delta' = IF m.type # "event" THEN delta ELSE d
           /\ acc_pc' = IF d = 0 THEN "recv" ELSE "get"
           /\ adjustments' = IF d = 0 THEN adjustments ELSE adjustments + 1
           /\ fold' = IF d = 0 THEN fold ELSE IF fold + d < 0 THEN 0 ELSE fold + d
    /\ UNCHANGED <<hub_sensor, cur_val, new_val, seen, written, dropped, external, lost>>
    /\ OnStream

\* a line 179 that keeps the value it fetched first
AccGot_KeepsFirstValue ==
    /\ acc_pc = "get"
    /\ LET cur == IF written = <<>> THEN CurVal(hub_sensor) ELSE cur_val
       IN  /\ cur_val' = cur
           /\ new_val' = NewVal(cur, delta)
    /\ seen' = hub_sensor
    /\ acc_pc' = IF PickSetService(Catalogs[acc_services]) # NoChoice THEN "set" ELSE "fb_get"
    /\ UNCHANGED <<hub_sensor, acc_msg, delta, written, fold, adjustments, dropped,
                   external, lost>>
    /\ OnStream

\* lines 179-186 and 104-117: the hub answers with the sensor's state; the new
\* value is computed and _set_sensor_value sends it, by the picked service
\* (line 113) or, without one, begins the direct state set (line 117)
AccGot ==
    /\ acc_pc = "get"
    /\ cur_val' = CurVal(hub_sensor)
    /\ new_val' = NewVal(CurVal(hub_sensor), delta)
    /\ seen' = hub_sensor
    /\ acc_pc' = IF PickSetService(Catalogs[acc_services]) # NoChoice THEN "set" ELSE "fb_get"
    /\ UNCHANGED <<hub_sensor, acc_msg, delta, written, fold, adjustments, dropped,
                   external, lost>>
    /\ OnStream

\* a failed adjustment that leaves the loop as a stream error does
AccAdjustFailed_EndsLoop ==
    /\ acc_pc \in {"get", "set", "fb_get", "fb_set"}
    /\ dropped' = TRUE
    /\ acc_pc' = "stopped"
    /\ acc_ws' = "closed"
    /\ UNCHANGED <<hub_sensor, acc_msg, delta, cur_val, new_val, seen, written, fold,
                   adjustments, external, lost>>
    /\ OnlyAccumulator

\* an await of the adjustment raises (lines 179, 114, 117, 120): line 189 logs
\* it and the loop goes on
AccAdjustFailed ==
    /\ acc_pc \in {"get", "set", "fb_get", "fb_set"}
    /\ dropped' = TRUE
    /\ acc_pc' = "recv"
    /\ UNCHANGED <<hub_sensor, acc_msg, delta, cur_val, new_val, seen, written, fold,
                   adjustments, external, lost>>
    /\ OnStream

\* line 117-119: the attributes are fetched and the state set is sent
AccFallbackGot ==
    /\ acc_pc = "fb_get"
    /\ acc_pc' = "fb_set"
    /\ UNCHANGED <<hub_sensor, acc_msg, delta, cur_val, new_val, seen, written, fold,
                   adjustments, dropped, external, lost>>
    /\ OnStream

\* a write that adds delta to what the hub holds when the write arrives
AccWritten_AddsAtTheHub ==
    /\ acc_pc \in {"set", "fb_set"}
    /\ hub_sensor' = FloatText(NewVal(CurVal(hub_sensor), delta))
    /\ written' = Append(written, NewVal(CurVal(hub_sensor), delta))
    /\ lost' = (lost \/ hub_sensor # seen)
    /\ acc_pc' = "recv"
    /\ UNCHANGED <<acc_msg, delta, cur_val, new_val, seen, fold, adjustments, dropped,
                   external>>
    /\ OnStream

\* lines 113-115 or 119-120, then 187: the hub has stored new_val as the sensor's
\* state, whatever it held
AccWritten ==
    /\ acc_pc \in {"set", "fb_set"}
    /\ hub_sensor' = FloatText(new_val)
    /\ written' = Append(written, new_val)
    /\ lost' = (lost \/ hub_sensor # seen)
    /\ acc_pc' = "recv"
    /\ UNCHANGED <<acc_msg, delta, cur_val, new_val, seen, fold, adjustments, dropped,
                   external>>
    /\ OnStream

\* line 172 raises: the exception leaves main through the finally of lines
\* 192-193, which closes the stream
AccStreamError ==
    /\ acc_pc = "recv"
    /\ acc_pc' = "stopped"
    /\ acc_ws' = "closed"
    /\ UNCHANGED <<hub_sensor, acc_msg, delta, cur_val, new_val, seen, written, fold,
                   adjustments, dropped, external, lost>>
    /\ OnlyAccumulator

\* another writer sets the sensor's state (once in a run)
ExternalWrite(v) ==
    /\ acc_pc \notin {"idle", "stopped"}
    /\ ~external
    /\ hub_sensor' = v
    /\ external' = TRUE
    /\ UNCHANGED <<acc_pc, acc_msg, delta, cur_val, new_val, seen, written, fold,
                   adjustments, dropped, lost>>
    /\ OnStream

----------------------------------------------------------------------------
(* ygg_ha_adapter.py: the states _infer_value_and_type is applied to *)

\* the longest state of StateAlphabet read
MaxStateLen == 3

StateAlphabet == {"0", "1", "5", ".", "-", "e", " "}

RECURSIVE TextsUpTo(_)
TextsUpTo(n) ==
    IF n = 0 THEN {<<>>}
    ELSE LET shorter == TextsUpTo(n - 1)
         IN  shorter \cup {Append(t, c) : t \in shorter, c \in StateAlphabet}

S_ON == <<"O", "N">>
S_Off == <<"O", "f", "f">>
S_1_0 == <<"1", "_", "0">>
S_1__0 == <<"1", "_", "_", "0">>
S_plus5 == <<"+", "5">>
S_Inf == <<"-", "I", "n", "f">>
S_1E2 == <<"1", "E", "+", "2">>
S_1e555 == <<"1", "e", "5", "5", "5">>

\* the states classified
ClsStates ==
    TextsUpTo(MaxStateLen)
        \cup {W_on, W_off, S_ON, S_Off, S_21, S_23_5, S_unlocked, S_unknown, S_1_0, S_1__0,
              S_plus5, S_Inf, W_nan, S_1E2, S_1e555, W_true}

NoResult == [value |-> NullValue, type |-> ""]

\* no classification is under way
ClsIdle ==
    /\ cls_state = <<>>
    /\ cls_result = NoResult

ClsInit ==
    /\ cls_state \in ClsStates
    /\ cls_result = [value |-> NullValue, type |-> "pending"]

\* lines 174-187: one call
Classify ==
    /\ cls_result.type = "pending"
    /\ cls_result' = InferValueAndType(cls_state)
    /\ UNCHANGED cls_state
    /\ UNCHANGED <<adapterVars, selVars, runVars, accVars, handlerVars>>

----------------------------------------------------------------------------
(* ygg_ha_adapter.py: get_artifact, _resolve_device_and_entities,            *)
(* _sensor_action_name                                                      *)

N_probe == <<"p", "r", "o", "b", "e">>
N_meter == <<"m", "e", "t", "e", "r">>
N_bare == <<"b", "a", "r", "e">>
N_gone == <<"g", "o", "n", "e">>
E_hum == <<"s", "e", "n", "s", "o", "r", ".", "h">>
E_power == <<"s", "e", "n", "s", "o", "r", ".", "p">>

\* the registry the request handlers read.  Two devices are named "L 1"; the
\* first has a sensor before its light, "probe" has two sensors, "bare" has no
\* entity.
Home ==
    [devices  |-> <<Device("d1", N_lamp, "kitchen"), Device("d2", N_lamp, "kitchen"),
                    Device("d3", N_probe, "lab"), Device("d4", N_bare, "lab"),
                    Device("d5", N_meter, "lab")>>,
     entities |-> <<Entity(E_sensor, "d1", Nil), Entity(E_light, "d1", Nil),
                    Entity(E_cover, "d2", Nil), Entity(E_hum, "d3", Nil),
                    Entity(E_power, "d3", Nil), Entity(E_switch, "d3", Nil),
                    Entity(E_fan, Nil, Nil), Entity(E_bool, "d5", Nil)>>]

NoDevice == Device(Nil, None, Nil)

HexDigits == DigitSet \cup {"A", "B", "C", "D", "E", "F", "a", "b", "c", "d", "e", "f"}

\* the character a percent code stands for, among those PercentCode encodes
PercentChar(h1, h2) ==
    CASE <<h1, h2>> = <<"2", "0">> -> " "
      [] <<h1, h2>> \in {<<"2", "F">>, <<"2", "f">>} -> "/"
      [] <<h1, h2>> = <<"2", "3">> -> "#"
      [] OTHER -> "?"

\* urllib.parse.unquote(text)
RECURSIVE Unquote(_)
Unquote(s) ==
    IF s = <<>> THEN <<>>
    ELSE IF Head(s) = "%" /\ Len(s) >= 3 /\ s[2] \in HexDigits /\ s[3] \in HexDigits
         THEN <<PercentChar(s[2], s[3])>> \o Unquote(SubSeq(s, 4, Len(s)))
         ELSE <<Head(s)>> \o Unquote(Tail(s))

\* [x for x in seq if keep(x)], for the members of seq that are in the set kept
RECURSIVE Filter(_, _)
Filter(seq, kept) ==
    IF seq = <<>> THEN <<>>
    ELSE (IF Head(seq) \in kept THEN <<Head(seq)>> ELSE <<>>) \o Filter(Tail(seq), kept)

\* ha_utils.py lines 59-61: the devices of an area
GetDevices(devs, area_id) ==
    Filter(devs, {devs[i] : i \in {j \in DOMAIN devs : devs[j].area_id = area_id}})

\* lines 142-152: the device of that name in the workspace and its entities, or
\* the 404 raised
ResolveDeviceAndEntities(reg, workspace_id, artifact_name) ==
    LET decoded_name == Unquote(artifact_name)
        devs == GetDevices(reg.devices, workspace_id)
        named == Filter(devs, {devs[i] : i \in {j \in DOMAIN devs : devs[j].name = decoded_name}})
        device == IF named = <<>> THEN NoDevice ELSE named[1]
        device_entities ==
            Filter(reg.entities,
                   {reg.entities[i] :
                        i \in {j \in DOMAIN reg.entities : reg.entities[j].device_id = device.id}})
    IN  IF named = <<>> THEN [status |-> 404, device |-> NoDevice, device_entities |-> <<>>]
        ELSE IF device_entities = <<>>
             THEN [status |-> 404, device |-> device, device_entities |-> <<>>]
             ELSE [status |-> 200, device |-> device, device_entities |-> device_entities]

U_degC == <<"°", "C">>
U_percent == <<"%">>
U_kWh == <<"k", "W", "h">>
U_m_s == <<"m", "/", "s">>
U_deg == <<"°">>
DC_temperature == <<"t", "e", "m", "p", "e", "r", "a", "t", "u", "r", "e">>
DC_carbon_dioxide == <<"c", "a", "r", "b", "o", "n", "_", "d", "i", "o", "x", "i", "d", "e">>
DC_blank == <<" ", " ">>

\* a state object: the entity and its attributes (a dict of texts)
ArtState(entity_id, attrs) == [entity_id |-> entity_id, attributes |-> attrs]
Attrs(device_class, unit) ==
    [k \in (IF device_class = None THEN {} ELSE {"device_class"})
            \cup (IF unit = None THEN {} ELSE {"unit_of_measurement"}) |->
        IF k = "device_class" THEN device_class ELSE unit]

\* the answers of GET /api/states
ArtStateLists ==
    << <<ArtState(E_sensor, Attrs(DC_temperature, U_degC)),
         ArtState(E_light, Attrs(None, None)),
         ArtState(E_hum, Attrs(None, U_percent)),
         ArtState(E_power, Attrs(DC_temperature, U_kWh))>>,
       <<ArtState(E_sensor, Attrs(DC_carbon_dioxide, U_m_s)),
         ArtState(E_hum, Attrs(DC_temperature, None)),
         ArtState(E_power, Attrs(None, U_kWh))>>,
       <<ArtState(E_sensor, Attrs(DC_blank, U_kWh)),
         ArtState(E_hum, Attrs(DC_temperature, U_deg)),
         ArtState(E_hum, Attrs(DC_temperature, <<>>))>>,
       <<ArtState(E_light, Attrs(None, None))>> >>

\* d.get(k)
Get(d, k) == IF k \in DOMAIN d THEN d[k] ELSE None

\* ch.isalnum(), for the characters of the units and names here
IsAlnum(c) == c \in (Unreserved \ {"_", ".", "-", "~"}) \cup {"µ", "μ", "³"}

\* lines 103-115: mapping
UnitMapping(unit) ==
    CASE unit = <<"°", "C">> -> <<"d", "e", "g", "c">>
      [] unit = <<"°", "F">> -> <<"d", "e", "g", "f">>
      [] unit = <<"%">> -> <<"p", "e", "r", "c", "e", "n", "t">>
      [] unit \in {<<"µ", "g", "/", "m", "³">>, <<"μ", "g", "/", "m", "³">>}
            -> <<"u", "g", "m", "3">>
      [] unit = <<"k", "W", "h">> -> <<"k", "w", "h">>
      [] unit = <<"W">> -> <<"w">>
      [] unit = <<"W", "h">> -> <<"w", "h">>
      [] unit = <<"V">> -> <<"v">>
      [] unit = <<"A">> -> <<"a">>
      [] unit = <<"l", "x">> -> <<"l", "x">>
      [] OTHER -> None

\* lines 97-119
SanitizeUnit(unit) ==
    IF unit = None \/ unit = <<>> THEN None
    ELSE IF UnitMapping(unit) # None THEN UnitMapping(unit)
    ELSE IF SelectSeq(unit, IsAlnum) = <<>> THEN None
    ELSE Lower(SelectSeq(unit, IsAlnum))

UpperChar(c) ==
    IF \E i \in DOMAIN LowerCase : LowerCase[i] = c
    THEN UpperCase[CHOOSE i \in DOMAIN LowerCase : LowerCase[i] = c]
    ELSE c

\* lines 121-123: the alphanumeric runs of the token, each capitalized, joined;
\* first tells that no character of the current run has been taken
RECURSIVE CamelFrom(_, _)
CamelFrom(token, first) ==
    IF token = <<>> THEN <<>>
    ELSE IF ~IsAlnum(Head(token)) THEN CamelFrom(Tail(token), TRUE)
    ELSE <<IF first THEN UpperChar(Head(token)) ELSE LowerChar(Head(token))>>
         \o CamelFrom(Tail(token), FALSE)

CamelToken(token) == CamelFrom(token, TRUE)

W_get == <<"g", "e", "t">>
W_In == <<"I", "n">>

\* lines 125-140
SensorActionName(device_class, unit) ==
    LET su_raw == SanitizeUnit(unit)
        dc == Strip(IF device_class = None THEN <<>> ELSE device_class)
    IN  IF su_raw = None THEN None
        ELSE IF dc # <<>> THEN W_get \o CamelToken(dc) \o W_In \o CamelToken(su_raw)
        ELSE W_get \o W_In \o CamelToken(su_raw)

\* s.startswith(prefix)
StartsWith(s, prefix) == Len(s) >= Len(prefix) /\ SubSeq(s, 1, Len(prefix)) = prefix

\* lines 154-158
PickEntity(device_entities, domain) ==
    LET own == {i \in DOMAIN device_entities :
                    StartsWith(device_entities[i].entity_id, domain \o <<".">>)}
    IN  IF own = {} THEN None
        ELSE device_entities[CHOOSE i \in own : \A j \in own : i <= j].entity_id

\* the characters of domain names, in the order of their code points
CodeOrder == Digits \o <<"_">> \o LowerCase

CharRank(c) == CHOOSE i \in DOMAIN CodeOrder : CodeOrder[i] = c

\* a < b for texts, as Python compares str
RECURSIVE TextLess(_, _)
TextLess(a, b) ==
    IF b = <<>> THEN FALSE
    ELSE IF a = <<>> THEN TRUE
    ELSE IF Head(a) # Head(b) THEN CharRank(Head(a)) < CharRank(Head(b))
    ELSE TextLess(Tail(a), Tail(b))

\* sorted(domains)
RECURSIVE Sorted(_)
Sorted(texts) ==
    IF texts = {} THEN <<>>
    ELSE LET least == CHOOSE t \in texts : \A u \in texts \ {t} : TextLess(t, u)
         IN  <<least>> \o Sorted(texts \ {least})

\* an action affordance, as _add_action enters it: name, type, method and the
\* target, here the path below the base that it ends with
Target(kind, a, b) == [kind |-> kind, a |-> a, b |-> b]
Action(name, type_uri, method, target) ==
    [name |-> name, type_uri |-> type_uri, method |-> method, target |-> target]

\* lines 498-503: svc_by_domain.get(domain, {}), the services of the last entry
\* of that domain
SvcByDomain(svcs, domain) ==
    LET own == {i \in DOMAIN svcs : svcs[i].domain = domain}
    IN  IF own = {} THEN <<>>
        ELSE svcs[CHOOSE i \in own : \A j \in own : j <= i].services

\* lines 506-524: the actions of one domain, from its service i on
RECURSIVE DomainActions(_, _, _)
DomainActions(domain, domain_svcs, i) ==
    IF i > Len(domain_svcs) THEN <<>>
    ELSE LET definition == domain_svcs[i].meta
             svc_name == domain_svcs[i].name
             legacy_applies == "entity_id" \in definition.fields
             modern_applies == \E k \in DOMAIN definition.target : domain \in definition.target[k]
         IN  (IF legacy_applies \/ modern_applies
              THEN <<Action(CamelToken(domain) \o CamelToken(svc_name), "EX.StatusCommand",
                            "POST", Target("ha", Quote(domain), Quote(svc_name)))>>
              ELSE <<>>)
             \o DomainActions(domain, domain_svcs, i + 1)

\* lines 505-524: for domain in sorted(domains)
RECURSIVE ServiceActions(_, _, _)
ServiceActions(svcs, sorted_domains, i) ==
    IF i > Len(sorted_domains) THEN <<>>
    ELSE DomainActions(sorted_domains[i], SvcByDomain(svcs, sorted_domains[i]), 1)
         \o ServiceActions(svcs, sorted_domains, i + 1)

\* state_map.get(sensor_ent, {}): the last state object of the entity
StateOf(states, entity_id) ==
    LET own == {i \in DOMAIN states : states[i].entity_id = entity_id}
    IN  IF own = {} THEN Attrs(None, None)
        ELSE states[CHOOSE i \in own : \A j \in own : j <= i].attributes

\* a sensor action taken from the last sensor of the device
SensorActions_LastSensor(device_entities, states) ==
    LET sensors == {i \in DOMAIN device_entities :
                        DomainOf(device_entities[i].entity_id) = D_sensor}
        attrs == StateOf(states, device_entities[CHOOSE i \in sensors :
                                                    \A j \in sensors : j <= i].entity_id)
        action_name == SensorActionName(Get(attrs, "device_class"),
                                        Get(attrs, "unit_of_measurement"))
    IN  IF sensors = {} \/ action_name = None THEN <<>>
        ELSE <<Action(action_name, "EX.StatusCommand", "POST",
                      Target("sensor", Quote(action_name), <<>>))>>

\* lines 527-541
SensorActions(device_entities, states) ==
    LET domains == {DomainOf(device_entities[i].entity_id) : i \in DOMAIN device_entities}
        sensor_ent == PickEntity(device_entities, D_sensor)
        attrs == IF sensor_ent = None THEN Attrs(None, None) ELSE StateOf(states, sensor_ent)
        action_name == SensorActionName(Get(attrs, "device_class"),
                                        Get(attrs, "unit_of_measurement"))
    IN  IF D_sensor \notin domains \/ action_name = None THEN <<>>
        ELSE <<Action(action_name, "EX.StatusCommand", "POST",
                      Target("sensor", Quote(action_name), <<>>))>>

A_getArtifactRepresentation == <<"g", "e", "t", "A", "r", "t", "i", "f", "a", "c", "t", "R", "e", "p", "r", "e", "s", "e", "n", "t", "a", "t", "i", "o", "n">>
A_updateArtifactRepresentation == <<"u", "p", "d", "a", "t", "e", "A", "r", "t", "i", "f", "a", "c", "t", "R", "e", "p", "r", "e", "s", "e", "n", "t", "a", "t", "i", "o", "n">>
A_deleteArtifactRepresentation == <<"d", "e", "l", "e", "t", "e", "A", "r", "t", "i", "f", "a", "c", "t", "R", "e", "p", "r", "e", "s", "e", "n", "t", "a", "t", "i", "o", "n">>
A_focusArtifact == <<"f", "o", "c", "u", "s", "A", "r", "t", "i", "f", "a", "c", "t">>
A_subscribeToArtifact == <<"s", "u", "b", "s", "c", "r", "i", "b", "e", "T", "o", "A", "r", "t", "i", "f", "a", "c", "t">>
A_unsubscribeFromArtifact == <<"u", "n", "s", "u", "b", "s", "c", "r", "i", "b", "e", "F", "r", "o", "m", "A", "r", "t", "i", "f", "a", "c", "t">>

\* lines 543-555
GenericActions ==
    << Action(A_getArtifactRepresentation, "JACAMO.PerceiveArtifact", "GET",
              Target("artifact", <<>>, <<>>)),
       Action(A_updateArtifactRepresentation, "JACAMO.UpdateArtifact", "PUT",
              Target("artifact", <<>>, <<>>)),
       Action(A_deleteArtifactRepresentation, "JACAMO.DeleteArtifact", "DELETE",
              Target("artifact", <<>>, <<>>)),
       Action(A_focusArtifact, "JACAMO.Focus", "POST", Target("focus", <<>>, <<>>)),
       Action(A_subscribeToArtifact, "WEBSUB.subscribeToArtifact", "POST",
              Target("hub", <<>>, <<>>)),
       Action(A_unsubscribeFromArtifact, "WEBSUB.unsubscribeFromArtifact", "POST",
              Target("hub", <<>>, <<>>)) >>

\* the requests: a workspace and the artifact name of the path
ArtRequests ==
    {[workspace_id |-> w, artifact_name |-> n] :
        w \in {"kitchen", "lab"},
        n \in {Quote(N_lamp), N_lamp, N_probe, N_bare, N_meter, N_gone}}

\* no request for a description is under way
ArtIdle ==
    /\ art_pc = "idle"
    /\ art_request = [workspace_id |-> Nil, artifact_name |-> <<>>]
    /\ art_device = NoDevice
    /\ art_entities = <<>>
    /\ art_states = 0
    /\ art_services = -1
    /\ art_actions = <<>>
    /\ art_status = 0


ArtInit ==
    /\ art_pc = "resolve"
    /\ art_request \in ArtRequests
    /\ art_device = NoDevice
    /\ art_entities = <<>>
    /\ art_states = 0
    /\ art_services = -1
    /\ art_actions = <<>>
    /\ art_status = 0

OnlyArtifact == UNCHANGED <<adapterVars, selVars, runVars, accVars, clsVars, resetVars, pickVars,
                          ssvVars, auxVars>>

\* line 468: the device and its entities, or the 404 of lines 146 and 150
ArtResolve ==
    /\ art_pc = "resolve"
    /\ LET r == ResolveDeviceAndEntities(Home, art_request.workspace_id,
                                         art_request.artifact_name)
       IN  /\ art_device' = r.device
           /\ art_entities' = r.device_entities
           /\ art_status' = IF r.status = 404 THEN 404 ELSE 0
           /\ art_pc' = IF r.status = 404 THEN "done" ELSE "states"
    /\ UNCHANGED <<art_request, art_states, art_services, art_actions>>
    /\ OnlyArtifact

\* lines 469-470: the states
ArtStates(k) ==
    /\ art_pc = "states"
    /\ art_states' = k
    /\ art_pc' = "describe"
    /\ UNCHANGED <<art_request, art_device, art_entities, art_services, art_actions, art_status>>
    /\ OnlyArtifact

\* lines 579-581: a call of the hub failed
ArtHubError ==
    /\ art_pc \in {"resolve", "states"}
    /\ art_status' = 500
    /\ art_pc' = "done"
    /\ UNCHANGED <<art_request, art_device, art_entities, art_states, art_services, art_actions>>
    /\ OnlyArtifact

\* lines 474-563: the description, with the catalog c, or none when c = 0
ArtDescribe(c) ==
    /\ art_pc = "describe"
    /\ LET svcs == IF c = 0 THEN <<>> ELSE Catalogs[c]
           domains == {DomainOf(art_entities[i].entity_id) : i \in DOMAIN art_entities}
       IN  art_actions' = ServiceActions(svcs, Sorted(domains), 1)
                          \o SensorActions(art_entities, ArtStateLists[art_states])
                          \o GenericActions
    /\ art_services' = c
    /\ art_status' = 200
    /\ art_pc' = "done"
    /\ UNCHANGED <<art_request, art_device, art_entities, art_states>>
    /\ OnlyArtifact

----------------------------------------------------------------------------
(* ygg_ha_adapter.py: _ensure_entity, action_ha_service, action_sensor_dynamic *)

SN_reload == <<"r", "e", "l", "o", "a", "d">>
W_succeeded == <<"A", "c", "t", "i", "o", "n", " ", "s", "u", "c", "c", "e", "e", "d", "e", "d", ":">>
A_getIn == <<"g", "e", "t", "I", "n">>
A_getFoo == <<"g", "e", "t", "F", "o", "o">>
A_getInDegc == <<"g", "e", "t", "I", "n", "D", "e", "g", "c">>
A_getTemperatureInDegc == <<"g", "e", "t", "T", "e", "m", "p", "e", "r", "a", "t", "u", "r", "e", "I", "n", "D", "e", "g", "c">>
A_getInPercent == <<"g", "e", "t", "I", "n", "P", "e", "r", "c", "e", "n", "t">>
A_getCarbonDioxideInMs == <<"g", "e", "t", "C", "a", "r", "b", "o", "n", "D", "i", "o", "x", "i", "d", "e", "I", "n", "M", "s">>
A_getInKwh == <<"g", "e", "t", "I", "n", "K", "w", "h">>

\* the catalogs of the action endpoint: those above, and a hub whose
\* input_boolean namespace has a service that names no entity
ActCatalogs ==
    Catalogs \o
    << << Dom(D_input_boolean, <<Svc(SN_turn_on, {}, <<{D_input_boolean}>>),
                                 Svc(SN_reload, {}, <<>>)>>),
          Dom(D_light, <<Svc(SN_turn_on, {"brightness"}, <<{D_light}>>)>>) >> >>

\* the states of GET /api/states, each object with its state text
ActStateLists ==
    [k \in DOMAIN ArtStateLists |->
        [i \in DOMAIN ArtStateLists[k] |->
            [entity_id |-> ArtStateLists[k][i].entity_id,
             attributes |-> ArtStateLists[k][i].attributes,
             state |-> <<S_21, S_on, S_23_5, S_unlocked>>[i]]]]

\* the JSON bodies of the requests: none, and objects that name an entity
NoBody == [k \in {} |-> <<>>]
ActBodies ==
    {NoBody,
     [k \in {"entity_id"} |-> E_fan],
     [k \in {"entity_id", "brightness"} |-> IF k = "entity_id" THEN E_cover ELSE S_21]}

ActRequest(kind, workspace_id, artifact_name, domain, service, action_name, body) ==
    [kind |-> kind, workspace_id |-> workspace_id, artifact_name |-> artifact_name,
     domain |-> domain, service |-> service, action_name |-> action_name, body |-> body]

ActRequests ==
    {ActRequest("ha", w, n, d, sv, <<>>, b) :
        w \in {"kitchen", "lab"}, n \in {Quote(N_lamp), N_meter, N_bare, N_gone},
        d \in {D_light, D_sensor, D_input_boolean, D_cover},
        sv \in {SN_turn_on, SN_reload, SN_set_value}, b \in ActBodies}
    \cup
    {ActRequest("sensor", w, n, <<>>, <<>>, a, NoBody) :
        w \in {"kitchen", "lab"}, n \in {Quote(N_lamp), N_probe, N_meter, N_gone},
        a \in {A_getTemperatureInDegc, A_getInDegc, A_getInPercent, A_getCarbonDioxideInMs,
               A_getInKwh, A_getIn, A_getFoo}}

\* a payload in which the entity_id of the body wins
ActionPayload_BodyWins(body, ent) ==
    [k \in DOMAIN body \cup {"entity_id"} |-> IF k \in DOMAIN body THEN body[k] ELSE ent]

\* line 631: {**payload, "entity_id": ent}
ActionPayload(body, ent) ==
    [k \in DOMAIN body \cup {"entity_id"} |-> IF k = "entity_id" THEN ent ELSE body[k]]

\* lines 623-624: the service is in the first catalog entry of the domain
ServiceFound(svcs, domain, service) ==
    LET own == {i \in DOMAIN svcs : svcs[i].domain = domain}
        svc == svcs[CHOOSE i \in own : \A j \in own : i <= j]
    IN  own # {} /\ \E i \in DOMAIN svc.services : svc.services[i].name = service

\* line 663: the name is shaped like get<dc>In<unit>
SensorShaped(action_name) ==
    /\ StartsWith(action_name, W_get)
    /\ Contains(SubSeq(action_name, 4, Len(action_name)), W_In)

\* an endpoint that takes every name of that shape for the sensor's
SensorNames_AnyShaped(attrs, action_name) ==
    {action_name}

\* lines 679-682: the names the endpoint accepts for a sensor of these attributes
SensorNames(attrs, action_name) ==
    LET expected_with_dc == SensorActionName(Get(attrs, "device_class"),
                                             Get(attrs, "unit_of_measurement"))
        expected_without_dc == SensorActionName(None, Get(attrs, "unit_of_measurement"))
    IN  {expected_with_dc, expected_without_dc} \ {None}

ActIdle ==
    /\ act_pc = "idle"
    /\ act_request = ActRequest("", Nil, <<>>, <<>>, <<>>, <<>>, NoBody)
    /\ act_entities = <<>>
    /\ act_entity = None
    /\ act_services = -1
    /\ act_states = 0
    /\ act_calls = <<>>
    /\ act_status = 0
    /\ act_body = <<>>

ActInit ==
    /\ act_pc = "resolve"
    /\ act_request \in ActRequests
    /\ act_entities = <<>>
    /\ act_entity = None
    /\ act_services = -1
    /\ act_states = 0
    /\ act_calls = <<>>
    /\ act_status = 0
    /\ act_body = <<>>

OnlyAct ==
    UNCHANGED <<adapterVars, selVars, runVars, accVars, clsVars, artVars, resetVars,
                pickVars, ssvVars, healthy, wsVars>>

\* the handler raises HTTPException(404)
ActNotFound ==
    /\ act_status' = 404
    /\ act_pc' = "done"

\* lines 605-610 and 615: _ensure_entity
ActEnsureEntity ==
    /\ act_pc = "resolve"
    /\ act_request.kind = "ha"
    /\ LET r == ResolveDeviceAndEntities(Home, act_request.workspace_id,
                                         act_request.artifact_name)
           ent == PickEntity(r.device_entities, act_request.domain)
       IN  /\ act_entities' = r.device_entities
           /\ act_entity' = IF r.status = 404 THEN None ELSE ent
           /\ IF r.status = 404 \/ ent = None
              THEN ActNotFound
              ELSE act_pc' = "services" /\ UNCHANGED act_status
    /\ UNCHANGED <<act_request, act_services, act_states, act_calls, act_body>>
    /\ OnlyAct

\* lines 618-633: the catalog c, or none when the request for it failed
\* (c = 0); the service is looked up, and called with the payload of line 631
ActServices(c) ==
    /\ act_pc = "services"
    /\ act_services' = c
    /\ LET svcs == IF c = 0 THEN <<>> ELSE ActCatalogs[c]
       IN  IF ~ServiceFound(svcs, act_request.domain, act_request.service)
           THEN ActNotFound /\ UNCHANGED act_calls
           ELSE /\ act_calls' = Append(act_calls,
                                       [domain |-> act_request.domain,
                                        service |-> act_request.service,
                                        payload |-> ActionPayload(act_request.body,
                                                                  act_entity)])
                /\ act_pc' = "call"
                /\ UNCHANGED act_status
    /\ UNCHANGED <<act_request, act_entities, act_entity, act_states, act_body>>
    /\ OnlyAct

\* lines 633-634: the hub has answered the call; a failure leaves the handler
\* as an exception
ActCalled(ok) ==
    /\ act_pc = "call"
    /\ act_status' = IF ok THEN 200 ELSE 500
    /\ act_body' = IF ok THEN W_succeeded ELSE <<>>
    /\ act_pc' = "done"
    /\ UNCHANGED <<act_request, act_entities, act_entity, act_services, act_states, act_calls>>
    /\ OnlyAct

\* lines 663-670: the shape of the name, the device, its first sensor
ActSensorResolve ==
    /\ act_pc = "resolve"
    /\ act_request.kind = "sensor"
    /\ LET r == ResolveDeviceAndEntities(Home, act_request.workspace_id,
                                         act_request.artifact_name)
           ent == PickEntity(r.device_entities, D_sensor)
           shaped == SensorShaped(act_request.action_name)
       IN  /\ act_entities' = IF shaped THEN r.device_entities ELSE <<>>
           /\ act_entity' = IF shaped /\ r.status # 404 THEN ent ELSE None
           /\ IF ~shaped \/ r.status = 404 \/ ent = None
              THEN ActNotFound
              ELSE act_pc' = "states" /\ UNCHANGED act_status
    /\ UNCHANGED <<act_request, act_services, act_states, act_calls, act_body>>
    /\ OnlyAct

\* lines 673-685: the states k; the first state object of the sensor, the names
\* it answers to, and its state as the text of the response
ActSensorStates(k) ==
    /\ act_pc = "states"
    /\ act_states' = k
    /\ LET states == ActStateLists[k]
           own == {i \in DOMAIN states : states[i].entity_id = act_entity}
           st == states[CHOOSE i \in own : \A j \in own : i <= j]
       IN  IF own = {} \/ act_request.action_name
                              \notin SensorNames(st.attributes, act_request.action_name)
           THEN ActNotFound /\ UNCHANGED act_body
           ELSE /\ act_status' = 200
                /\ act_body' = st.state
                /\ act_pc' = "done"
    /\ UNCHANGED <<act_request, act_entities, act_entity, act_services, act_calls>>
    /\ OnlyAct

\* a call of the hub's registries or states raises: the response is a 500
ActHubError ==
    /\ act_pc \in {"resolve", "states"}
    /\ act_status' = 500
    /\ act_pc' = "done"
    /\ UNCHANGED <<act_request, act_entities, act_entity, act_services, act_states,
                   act_calls, act_body>>
    /\ OnlyAct

----------------------------------------------------------------------------
(* set-property.py: the device and the entity of the artifact *)

\* the registry's devices and entities are those of Home; the arguments
PickNames == {N_lamp, N_lamp2, N_probe, N_bare, N_meter, N_gone}
PickProps == {"state", "brightness", "brightness_pct", "value", "temperature", "position"}

\* lines 139-143: the domains preferred for the property, {} for None
Preferred(prop) ==
    IF prop = "state" THEN {D_light, D_switch, D_fan, D_cover, D_input_boolean}
    ELSE IF prop \in {"brightness", "brightness_pct"} THEN {D_light}
    ELSE {}

\* line 133: ent.split(".")[0] if "." in ent else ""
DomOrEmpty(ent) == IF FindFrom(ent, ".", 1) = 0 THEN <<>> ELSE DomainOf(ent)

\* lines 131-135: the loop, from entity i on; None when it ends without a return
RECURSIVE PreferredLoop(_, _, _)
PreferredLoop(device_entities, i, preferred_domains) ==
    IF i > Len(device_entities) THEN None
    ELSE IF DomOrEmpty(device_entities[i].entity_id) \in preferred_domains
         THEN device_entities[i].entity_id
         ELSE PreferredLoop(device_entities, i + 1, preferred_domains)

\* lines 129-137
pick_entity(device_entities, preferred_domains) ==
    LET found == IF preferred_domains # {}
                 THEN PreferredLoop(device_entities, 1, preferred_domains)
                 ELSE None
    IN  IF found # None THEN found ELSE device_entities[1].entity_id

\* no resolution is under way
PickIdle ==
    /\ pick_pc = "idle"
    /\ pick_argv = [artifact_name |-> <<>>, prop |-> ""]
    /\ pick_device = NoDevice
    /\ pick_entities = <<>>
    /\ pick_entity_id = None

PickInit ==
    /\ pick_pc = "device"
    /\ pick_argv \in [artifact_name : PickNames, prop : PickProps]
    /\ pick_device = NoDevice
    /\ pick_entities = <<>>
    /\ pick_entity_id = None

OnlyPick ==
    UNCHANGED <<adapterVars, selVars, runVars, accVars, clsVars, artVars, resetVars, ssvVars,
                auxVars>>

\* lines 109-112: the first device of that name, or exit
PickDevice ==
    /\ OnlyPick
    /\ pick_pc = "device"
    /\ LET named(d) == d.name = pick_argv.artifact_name
           found == SelectSeq(Home.devices, named)
       IN  IF found = <<>>
           THEN pick_pc' = "failed" /\ UNCHANGED pick_device
           ELSE pick_pc' = "entities" /\ pick_device' = found[1]
    /\ UNCHANGED <<pick_argv, pick_entities, pick_entity_id>>

\* lines 114-122: the device's entities, or exit
PickEntities ==
    /\ OnlyPick
    /\ pick_pc = "entities"
    /\ LET ofDevice(e) == e.device_id = pick_device.id
           device_entities == SelectSeq(Home.entities, ofDevice)
       IN  /\ pick_entities' = device_entities
           /\ pick_pc' = IF device_entities = <<>> THEN "failed" ELSE "pick"
    /\ UNCHANGED <<pick_argv, pick_device, pick_entity_id>>

\* lines 139-147: entity_id = pick_entity(preferred)
PickChoose ==
    /\ OnlyPick
    /\ pick_pc = "pick"
    /\ pick_entity_id' = pick_entity(pick_entities, Preferred(pick_argv.prop))
    /\ pick_pc' = IF pick_entity_id' = None THEN "failed" ELSE "done"
    /\ UNCHANGED <<pick_argv, pick_device, pick_entities>>

----------------------------------------------------------------------------
(* adjust_lux_on_events.py: _set_sensor_value *)

\* the catalogs _set_sensor_value is followed with: those of Catalogs, one in
\* which a virtual service without "set" or "value" follows a setter of another
\* namespace, one whose services apply to a sensor and score nothing, and one
\* whose virtual service does not apply to a sensor
SetCatalogs ==
    Catalogs \o
    << << Dom(D_sensor, <<Svc(SN_set_value, {"entity_id", "value"}, <<>>)>>),
          Dom(D_virtual, <<Svc(SN_turn_on, {"entity_id"}, <<>>)>>) >>,
       << Dom(D_homeassistant, <<Svc(SN_update_entity, {"entity_id"}, <<>>),
                                 Svc(SN_toggle, {}, <<{D_sensor}>>)>>) >>,
       << Dom(D_virtual, <<Svc(SN_set_value, {"value"}, <<{D_light}>>)>>),
          Dom(D_input_number, <<Svc(SN_set_value, {"value"}, <<{D_sensor}>>)>>) >> >>

\* new_value, in tenths
SetValues == {0, 400, 1425}

\* what the hub may answer to GET /api/states/<sensor>
SensorObjects ==
    << [state |-> StrValue(S_40),
        attributes |-> [unit_of_measurement |-> StrValue(<<"l", "x">>),
                        friendly_name |-> StrValue(N_lamp)]],
       [state |-> StrValue(S_20), attributes |-> EmptyMap],
       [state |-> StrValue(S_20), attributes |-> NullValue] >>

\* no call of _set_sensor_value is looked at
SsvIdle ==
    /\ ssv_pc = "idle"
    /\ ssv_services = 0
    /\ ssv_new_value = 0
    /\ ssv_current = 0
    /\ ssv_picked = NoChoice
    /\ ssv_posts = <<>>

SsvInit ==
    /\ ssv_pc = "pick"
    /\ ssv_services \in DOMAIN SetCatalogs
    /\ ssv_new_value \in SetValues
    /\ ssv_current = 0
    /\ ssv_picked = NoChoice
    /\ ssv_posts = <<>>

OnlySsv ==
    /\ UNCHANGED <<ssv_services, ssv_new_value>>
    /\ UNCHANGED <<adapterVars, selVars, runVars, accVars, clsVars, artVars, resetVars,
                   pickVars, auxVars>>

\* lines 104-113: a service is picked and called, or the direct state set begins
SsvPick ==
    /\ OnlySsv
    /\ ssv_pc = "pick"
    /\ LET picked == PickSetService(SetCatalogs[ssv_services])
       IN  /\ ssv_picked' = picked
           /\ IF picked # NoChoice
              THEN /\ ssv_posts' =
                        <<[path |-> <<"/api/services/", picked.domain, "/", picked.name>>,
                           json |-> [entity_id |-> StrValue(E_sensor),
                                     value |-> ssv_new_value]]>>
                   /\ ssv_pc' = "call"
              ELSE /\ ssv_posts' = <<>>
                   /\ ssv_pc' = "fb_get"
    /\ UNCHANGED ssv_current

\* lines 113-115: the call ends; raise_for_status raises when it failed
SsvCalled(ok) ==
    /\ OnlySsv
    /\ ssv_pc = "call"
    /\ ssv_pc' = IF ok THEN "done" ELSE "raised"
    /\ UNCHANGED <<ssv_current, ssv_picked, ssv_posts>>

\* lines 117-119: the hub answers with object k; the state set is sent
SsvFallbackGot(k) ==
    /\ OnlySsv
    /\ ssv_pc = "fb_get"
    /\ ssv_current' = k
    /\ LET cur == SensorObjects[k]
           attrs == IF cur.attributes = NullValue THEN EmptyMap ELSE cur.attributes
       IN  ssv_posts' =
               Append(ssv_posts,
                      [path |-> <<"/api/states/", E_sensor>>,
                       json |-> [state |-> ssv_new_value, attributes |-> attrs]])
    /\ ssv_pc' = "fb_set"
    /\ UNCHANGED ssv_picked

\* line 117 raises (lines 98-99)
SsvFallbackGetFailed ==
    /\ OnlySsv
    /\ ssv_pc = "fb_get"
    /\ ssv_pc' = "raised"
    /\ UNCHANGED <<ssv_current, ssv_picked, ssv_posts>>

\* lines 119-120: the state set ends; raise_for_status raises when it failed
SsvFallbackPosted(ok) ==
    /\ OnlySsv
    /\ ssv_pc = "fb_set"
    /\ ssv_pc' = IF ok THEN "done" ELSE "raised"
    /\ UNCHANGED <<ssv_current, ssv_picked, ssv_posts>>

----------------------------------------------------------------------------
(* ygg_ha_adapter.py: _post_with_retries, _post_monitor_reset,               *)
(* _post_explorer_reset                                                     *)

URL_m == <<"m">>
W_reset_path == <<"/", "r", "e", "s", "e", "t">>
W_admin_reset_path == <<"/", "a", "d", "m", "i", "n", "/", "r", "e", "s", "e", "t">>

\* s.rstrip('/')
RECURSIVE RStripSlash(_)
RStripSlash(s) ==
    IF s # <<>> /\ s[Len(s)] = "/" THEN RStripSlash(SubSeq(s, 1, Len(s) - 1)) ELSE s

\* s.endswith(suffix)
EndsWith(s, suffix) ==
    Len(s) >= Len(suffix) /\ SubSeq(s, Len(s) - Len(suffix) + 1, Len(s)) = suffix

\* lines 325 and 331
ResetUrl(url, path) ==
    IF EndsWith(RStripSlash(url), path) THEN url ELSE RStripSlash(url) \o path

\* line 306: max_retries
MaxRetries == 5
\* line 307
Delays == <<0, 1, 2, 4, 8>>

\* the reset calls: at startup (lines 396-397) and at shutdown (lines 77-84), of
\* the monitor and of the explorer, for the values of MONITOR_URL and
\* EXPLORER_URL
ResetCalls ==
    {[caller |-> c, path |-> p, url |-> u] :
        c \in {"startup", "shutdown"},
        p \in {W_reset_path, W_admin_reset_path},
        u \in {<<>>, URL_m, URL_m \o <<"/">>, URL_m \o W_reset_path,
               URL_m \o W_admin_reset_path \o <<"/">>}}

NoResetCall == [caller |-> "", path |-> <<>>, url |-> <<>>]

\* no reset call is under way
ResetIdle ==
    /\ reset_pc = "idle"
    /\ reset_call = NoResetCall
    /\ reset_url = <<>>
    /\ reset_posts = <<>>
    /\ reset_result = "none"


ResetInit ==
    /\ reset_pc = "start"
    /\ reset_call \in ResetCalls
    /\ reset_url = <<>>
    /\ reset_posts = <<>>
    /\ reset_result = "none"

OnlyReset ==
    UNCHANGED <<adapterVars, selVars, runVars, accVars, clsVars, artVars, pickVars, ssvVars,
                auxVars>>

\* lines 322-326, 328-332: nothing is done without a URL
ResetStart ==
    /\ reset_pc = "start"
    /\ IF reset_call.url = <<>>
       THEN /\ reset_pc' = "done"
            /\ reset_result' = "skipped"
            /\ UNCHANGED reset_url
       ELSE /\ reset_pc' = "attempt"
            /\ reset_url' = ResetUrl(reset_call.url, reset_call.path)
            /\ UNCHANGED reset_result
    /\ UNCHANGED <<reset_call, reset_posts>>
    /\ OnlyReset

\* an attempt after which the loop goes on whatever the answer
ResetAttempt_KeepsPosting(ok) ==
    /\ reset_pc = "attempt"
    /\ Len(reset_posts) < MaxRetries
    /\ reset_posts' = Append(reset_posts, [delay |-> Delays[Len(reset_posts) + 1], ok |-> ok])
    /\ IF Len(reset_posts') = MaxRetries
       THEN reset_pc' = "done" /\ reset_result' = IF ok THEN "true" ELSE "false"
       ELSE UNCHANGED <<reset_pc, reset_result>>
    /\ UNCHANGED <<reset_call, reset_url>>
    /\ OnlyReset

\* lines 309-320: one pass of the loop: the sleep, the POST, and the return of
\* True after a good answer, of False after the last pass
ResetAttempt(ok) ==
    /\ reset_pc = "attempt"
    /\ Len(reset_posts) < MaxRetries
    /\ reset_posts' = Append(reset_posts, [delay |-> Delays[Len(reset_posts) + 1], ok |-> ok])
    /\ IF ok
       THEN reset_pc' = "done" /\ reset_result' = "true"
       ELSE IF Len(reset_posts') = MaxRetries
            THEN reset_pc' = "done" /\ reset_result' = "false"
            ELSE UNCHANGED <<reset_pc, reset_result>>
    /\ UNCHANGED <<reset_call, reset_url>>
    /\ OnlyReset

----------------------------------------------------------------------------
(* ha_utils.py: HomeAssistantWS._ensure and _call, called by two tasks *)

WsTasks == {1, 2}
\* each task connects once at most
WsConns == {1, 2}

WsMsg(type, id, success) == [type |-> type, id |-> id, success |-> success]
M_auth_required == WsMsg("auth_required", 0, FALSE)
M_auth_ok == WsMsg("auth_ok", 0, FALSE)
M_auth_invalid == WsMsg("auth_invalid", 0, FALSE)
\* a message that is none of these: a greeting of another kind, or the hub's
\* error answer to a message without id
M_other == WsMsg("other", 0, FALSE)

\* the client and its surroundings as one value
WsState == [self |-> ws_self, task |-> ws_task, conn |-> ws_conn, sent |-> ws_sent]

WsBecomes(s) ==
    /\ ws_self' = s.self
    /\ ws_task' = s.task
    /\ ws_conn' = s.conn
    /\ ws_sent' = s.sent

\* the hub's side of connection c gets a message of the client: the auth
\* message (id 0) or request id.  The hub answers an auth on a fresh connection
\* with auth_ok or, rejecting it (ok false), with auth_invalid; a request on a
\* connection not authenticated with auth_invalid; a request on an
\* authenticated one with its result; an auth on an authenticated one with an
\* error that carries no request id.
HubGets(s, c, id, ok) ==
    LET hub == s.conn[c].hub
        answer(m, h) == [s EXCEPT !.conn[c].wire = Append(@, m), !.conn[c].hub = h]
    IN  CASE hub = "await_auth" /\ id = 0 /\ ok  -> answer(M_auth_ok, "authed")
          [] hub = "await_auth" /\ id = 0 /\ ~ok -> answer(M_auth_invalid, "rejected")
          [] hub = "await_auth" /\ id # 0        -> answer(M_auth_invalid, "rejected")
          [] hub = "authed" /\ id = 0            -> answer(M_other, "authed")
          [] hub = "authed" /\ id # 0            -> answer(WsMsg("result", id, ok), "authed")
          [] OTHER                               -> s

\* an exception leaves _call in task t
WsRaise(s, t, why) == [s EXCEPT !.task[t].pc = "raised", !.task[t].why = why]

\* a _call that waits for its result on a connection of its own choice
RECURSIVE WsRecv(_, _, _, _), WsHandle(_, _, _, _, _), WsSend(_, _, _)

\* await self._ws.recv() at position pc of task t: a message that has arrived
\* is handled at once; with none, the task waits, unless another task is
\* waiting in recv on that connection already (websockets raises then)
WsRecv(s, t, pc, ok) ==
    LET c == s.self._ws
        cn == s.conn[c]
    IN  IF cn.queue # <<>>
        THEN WsHandle([s EXCEPT !.conn[c].queue = Tail(@)], t, pc, Head(cn.queue), ok)
        ELSE IF cn.waiter # 0
        THEN WsRaise(s, t, "concurrent recv")
        ELSE [s EXCEPT !.conn[c].waiter = t, !.task[t].pc = pc, !.task[t].conn = c]

\* lines 36-42 and 49-54: what task t does with message m, received at pc
WsHandle(s, t, pc, m, ok) ==
    CASE pc = "hs_first" ->
            IF m.type # "auth_required" THEN WsRaise(s, t, "Unexpected handshake")
            ELSE WsRecv(HubGets(s, s.self._ws, 0, ok), t, "hs_auth", ok)
      [] pc = "hs_auth" ->
            IF m.type # "auth_ok" THEN WsRaise(s, t, "Auth failed")
            ELSE WsSend(s, t, ok)
      [] OTHER ->
            IF m.id = s.task[t].ident /\ m.type = "result"
            THEN IF m.success
                 THEN [s EXCEPT !.task[t].pc = "returned"]
                 ELSE WsRaise(s, t, "error")
            ELSE WsRecv(s, t, "wait", ok)

\* lines 46-50: the request is numbered and sent, and its result awaited
WsSend(s, t, ok) ==
    LET ident == s.self._next_id + 1
        c == s.self._ws
        numbered == [s EXCEPT !.self._next_id = ident,
                              !.task[t].ident = ident,
                              !.sent = @ \cup {[task |-> t, id |-> ident, conn |-> c,
                                                authed |-> s.conn[c].hub = "authed"]}]
    IN  WsRecv(HubGets(numbered, c, ident, ok), t, "wait", ok)

WsIdle ==
    /\ ws_self = [_ws |-> 0, _next_id |-> 0]
    /\ ws_task = [t \in WsTasks |-> [pc |-> "idle", ident |-> 0, conn |-> 0, why |-> ""]]
    /\ ws_conn = [c \in WsConns |->
                    [hub |-> "none", wire |-> <<>>, queue |-> <<>>, waiter |-> 0]]
    /\ ws_sent = {}

OnlyWs ==
    UNCHANGED <<adapterVars, selVars, runVars, accVars, clsVars, artVars, resetVars,
                pickVars, ssvVars, healthy, actVars>>

\* lines 44-45 and 34-37: task t calls _call; _ensure returns at once when _ws
\* is set, and else begins to connect
WsCall(t, ok) ==
    /\ OnlyWs
    /\ ws_task[t].pc = "idle"
    /\ IF ws_self._ws # 0
       THEN WsBecomes(WsSend(WsState, t, ok))
       ELSE WsBecomes([WsState EXCEPT !.task[t].pc = "connecting"])

\* line 37: the connection is made and kept in _ws; the hub greets with
\* auth_required, or (good false) with something else; line 38 awaits it
WsConnected(t, good) ==
    /\ OnlyWs
    /\ ws_task[t].pc = "connecting"
    /\ LET c == CHOOSE x \in WsConns :
                   ws_conn[x].hub = "none" /\ \A y \in WsConns : y < x => ws_conn[y].hub # "none"
           made == [WsState EXCEPT
                       !.self._ws = c,
                       !.conn[c] = [hub |-> IF good THEN "await_auth" ELSE "silent",
                                    wire |-> <<IF good THEN M_auth_required ELSE M_other>>,
                                    queue |-> <<>>, waiter |-> 0]]
       IN  WsBecomes(WsRecv(made, t, "hs_first", TRUE))

\* line 37 raises
WsConnectFailed(t) ==
    /\ OnlyWs
    /\ ws_task[t].pc = "connecting"
    /\ WsBecomes(WsRaise(WsState, t, "connect"))

\* a message of the hub arrives on connection c: the task waiting in recv goes
\* on with it; with none waiting it is kept for the next recv
WsArrive(c, ok) ==
    /\ OnlyWs
    /\ ws_conn[c].wire # <<>>
    /\ LET m == Head(ws_conn[c].wire)
           t == ws_conn[c].waiter
           popped == [WsState EXCEPT !.conn[c].wire = Tail(@), !.conn[c].waiter = 0]
       IN  IF t # 0
           THEN WsBecomes(WsHandle(popped, t, ws_task[t].pc, m, ok))
           ELSE WsBecomes([popped EXCEPT !.conn[c].queue = Append(@, m)])

\* the hub closes a connection it has rejected: the recv under way raises
WsPeerClosed(c) ==
    /\ OnlyWs
    /\ ws_conn[c].hub = "rejected"
    /\ ws_conn[c].wire = <<>>
    /\ ws_conn[c].waiter # 0
    /\ WsBecomes(WsRaise([WsState EXCEPT !.conn[c].waiter = 0], ws_conn[c].waiter, "closed"))

\* C33: the client sends a request only on a connection whose authentication
\* handshake has completed, and after a failed handshake it does not keep the
\* connection in _ws, so that the next call connects and authenticates afresh.
C33_RequestsOnlyWhenAuthenticated ==
    /\ \A r \in ws_sent : r.authed
    /\ \A t \in WsTasks :
          ws_task[t].pc = "raised" /\ ws_task[t].why \in {"Unexpected handshake", "Auth failed"}
              => ws_self._ws # ws_task[t].conn

\* C34: concurrent calls on the shared client use distinct request ids and
\* each returns the result with its own id once the hub has answered; no
\* interleaving makes a call fail on another call's receive or discard it, or
\* opens more than one connection for the client.
C34_ConcurrentCallsKeepApart ==
    /\ \A r1, r2 \in ws_sent : r1.id = r2.id => r1 = r2
    /\ \A t \in WsTasks : ~(ws_task[t].pc = "raised" /\ ws_task[t].why = "concurrent recv")
    /\ Cardinality({c \in WsConns : ws_conn[c].hub # "none"}) <= 1

\* what does hold: the ids are distinct, and a call returns on its own ident
C34_DistinctIdsOwnResult ==
    /\ \A r1, r2 \in ws_sent : r1.id = r2.id => r1 = r2
    /\ \A t \in WsTasks :
          ws_task[t].pc = "returned"
              => \E r \in ws_sent : r.task = t /\ r.id = ws_task[t].ident

----------------------------------------------------------------------------
(* Specifications *)

\* the adapter before its startup handler has run, for a configuration
AdapterInit ==
    /\ MONITOR_URL \in {"", "http://monitor/events"}
    /\ AREAS \in {{}, {"kitchen"}}
    /\ hubReg = 1
    /\ regChanged = FALSE
    /\ apc = "starting"
    /\ forward_task = "none"
    /\ fpc = "notcreated"
    /\ taskResult = "pending"
    /\ cancelReq = FALSE
    /\ hsWs = "none" /\ buildWs = "none" /\ ws = "none"
    /\ dangling = 0
    /\ buildPending = {}
    /\ devices = 0 /\ entities = 0
    /\ index = NoIndex
    /\ curMsg = NoMsg
    /\ verdict = "none"
    /\ payload = NoPayload
    /\ classified = NotCalled
    /\ attempts = 0
    /\ spc = "idle"
    /\ resetResult = "none"
    /\ monitor_resets = {}
    /\ ha_client_ws = "none"
    /\ ha_rest = "open"
    /\ rpc = "notcreated"
    /\ rIndex = NoIndex
    /\ rStates = 0
    /\ ri = 0
    /\ rPayload = NoPayload
    /\ rClassified = NotCalled

\* the adapter not running, while a script is looked at
AdapterIdle ==
    /\ AdapterInit
    /\ MONITOR_URL = ""
    /\ AREAS = {}

\* the hub has not been said to stay healthy
LiveIdle == healthy = FALSE

AuxIdle == LiveIdle /\ WsIdle /\ ActIdle
HandlersIdle == ArtIdle /\ ResetIdle /\ PickIdle /\ SsvIdle /\ AuxIdle

Init == AdapterInit /\ SelIdle /\ RunIdle /\ AccIdle /\ ClsIdle /\ HandlersIdle

Next ==
    \/ StartupForwarder
    \/ FwdStart
    \/ BuildConnectOk
    \/ BuildConnectFail
    \/ BuildAuthOk
    \/ \E peerClosed \in BOOLEAN : BuildAuthFail(peerClosed)
    \/ \E id \in {1, 2}, success \in BOOLEAN : BuildResult(id, success)
    \/ BuildReturn
    \/ BuildStreamError
    \/ FwdConnectOk
    \/ FwdConnectFail
    \/ FwdAuthOk
    \/ \E peerClosed \in BOOLEAN : FwdAuthFail(peerClosed)
    \/ FwdSubscribeOk
    \/ FwdSubscribeFail
    \/ \E m \in Messages : FwdRecv(m)
    \/ FwdRecvError
    \/ \E ok \in BOOLEAN : FwdPostDone(ok)
    \/ FwdBackoffDone
    \/ FwdCancelled
    \/ RegStartDisabled
    \/ \E k \in DOMAIN HubStateLists : RegFetched(k)
    \/ RegFetchFailed
    \/ RegIterate
    \/ RegPostDone
    \/ RegFinished
    \/ UseHubClient
    \/ RegistryChange
    \/ ShutdownBegin
    \/ ShutdownAwaited
    \/ \E ok \in BOOLEAN : ShutdownResets(ok)
    \/ ShutdownClose

Spec == Init /\ [][Next]_vars

\* the runs of set-property.py's selector, one per request and catalog
SelSpecInit == AdapterIdle /\ SelInit /\ RunIdle /\ AccIdle /\ ClsIdle /\ HandlersIdle

SelNext ==
    \/ SelectService
    \/ CallService
    \/ \E ok \in BOOLEAN : CallDone(ok)
    \/ FallbackGet
    \/ \E k \in DOMAIN HubEntityStates : FallbackGot(k)
    \/ FallbackGetFailed
    \/ \E ok \in BOOLEAN : FallbackPosted(ok)

SpecSel == SelSpecInit /\ [][SelNext]_vars

\* the runs of adjust_lux_on_events.py
AccSpecInit == AdapterIdle /\ SelIdle /\ RunIdle /\ AccInit /\ ClsIdle /\ HandlersIdle

AccNext ==
    \/ \E m \in AccRunMessages : AccRecv(m)
    \/ AccGot
    \/ AccAdjustFailed
    \/ AccFallbackGot
    \/ AccWritten
    \/ AccStreamError
    \/ \E v \in ExternalValues : ExternalWrite(v)

SpecAcc == AccSpecInit /\ [][AccNext]_vars

\* the accumulator's receive step alone, for every message the hub sends
EventNext == \E m \in AccMessages : AccRecv(m)

SpecEvent == AccSpecInit /\ [][EventNext]_vars

\* _infer_value_and_type applied to one state
ClsSpecInit == AdapterIdle /\ SelIdle /\ RunIdle /\ AccIdle /\ ClsInit /\ HandlersIdle

ClsNext == Classify

SpecCls == ClsSpecInit /\ [][ClsNext]_vars

\* one GET of an artifact's description
ArtSpecInit ==
    AdapterIdle /\ SelIdle /\ RunIdle /\ AccIdle /\ ClsIdle /\ ArtInit /\ ResetIdle /\ PickIdle
    /\ SsvIdle /\ AuxIdle

ArtNext ==
    \/ ArtResolve
    \/ \E k \in DOMAIN ArtStateLists : ArtStates(k)
    \/ ArtHubError
    \/ \E c \in 0..Len(Catalogs) : ArtDescribe(c)

SpecArt == ArtSpecInit /\ [][ArtNext]_vars

\* one reset call.  Every await of it ends: the sleeps are finite and the client
\* has a timeout of 10 s (line 308), so a step that can be taken is taken.
ResetSpecInit ==
    AdapterIdle /\ SelIdle /\ RunIdle /\ AccIdle /\ ClsIdle /\ ArtIdle /\ ResetInit /\ PickIdle
    /\ SsvIdle /\ AuxIdle

ResetNext ==
    \/ ResetStart
    \/ \E ok \in BOOLEAN : ResetAttempt(ok)

SpecReset == ResetSpecInit /\ [][ResetNext]_vars /\ WF_vars(ResetNext)

\* set-property.py up to line 147, for every name and property of the arguments
PickSpecInit ==
    AdapterIdle /\ SelIdle /\ RunIdle /\ AccIdle /\ ClsIdle /\ ArtIdle /\ ResetIdle /\ PickInit
    /\ SsvIdle /\ AuxIdle

PickNext ==
    \/ PickDevice
    \/ PickEntities
    \/ PickChoose

SpecPick == PickSpecInit /\ [][PickNext]_vars

\* one call of _set_sensor_value, for every catalog and value
SsvSpecInit ==
    AdapterIdle /\ SelIdle /\ RunIdle /\ AccIdle /\ ClsIdle /\ ArtIdle /\ ResetIdle /\ PickIdle
    /\ SsvInit /\ AuxIdle

SsvNext ==
    \/ SsvPick
    \/ \E ok \in BOOLEAN : SsvCalled(ok)
    \/ \E k \in DOMAIN SensorObjects : SsvFallbackGot(k)
    \/ SsvFallbackGetFailed
    \/ \E ok \in BOOLEAN : SsvFallbackPosted(ok)

SpecSet == SsvSpecInit /\ [][SsvNext]_vars

\* the forwarder alone, never cancelled, against a hub that fails until it
\* recovers for good
LiveInit ==
    /\ AdapterInit /\ MONITOR_URL # ""
    /\ SelIdle /\ RunIdle /\ AccIdle /\ ClsIdle /\ HandlersIdle

\* the messages the forwarder is followed with here
LiveMessages ==
    {Msg("result", Nil, None, None, Nil),
     Msg("event", "state_changed", E_light, S_on, Nil),
     Msg("event", "state_changed", E_sensor, S_21, "temperature"),
     Msg("event", "state_changed", E_switch, S_unavailable, Nil)}

\* from now on the hub accepts connections and its streams stay up
HubRecovers ==
    /\ ~healthy
    /\ healthy' = TRUE
    /\ UNCHANGED <<adapterVars, selVars, runVars, accVars, clsVars, artVars, resetVars,
                   pickVars, ssvVars, wsVars, actVars>>

\* the steps the forwarder takes when nothing fails
LiveProgress ==
    \/ StartupForwarder
    \/ FwdStart
    \/ BuildConnectOk
    \/ BuildAuthOk
    \/ \E id \in {1, 2} : BuildResult(id, TRUE)
    \/ BuildReturn
    \/ FwdConnectOk
    \/ FwdAuthOk
    \/ FwdSubscribeOk
    \/ \E m \in LiveMessages : FwdRecv(m)
    \/ \E ok \in BOOLEAN : FwdPostDone(ok)
    \/ FwdBackoffDone

\* the forwarder's steps, the failures of the hub's connections and streams
\* while it has not recovered, and its recovery
LiveNext ==
    \/ LiveProgress
    \/ ~healthy /\ BuildConnectFail
    \/ ~healthy /\ \E peerClosed \in BOOLEAN : BuildAuthFail(peerClosed)
    \/ ~healthy /\ \E id \in {1, 2} : BuildResult(id, FALSE)
    \/ ~healthy /\ BuildStreamError
    \/ ~healthy /\ FwdConnectFail
    \/ ~healthy /\ \E peerClosed \in BOOLEAN : FwdAuthFail(peerClosed)
    \/ ~healthy /\ FwdSubscribeFail
    \/ ~healthy /\ FwdRecvError
    \/ HubRecovers

\* one request to an action endpoint of an artifact
ActSpecInit ==
    /\ AdapterIdle /\ SelIdle /\ RunIdle /\ AccIdle /\ ClsIdle
    /\ ArtIdle /\ ResetIdle /\ PickIdle /\ SsvIdle /\ LiveIdle /\ WsIdle /\ ActInit

ActNext ==
    \/ ActEnsureEntity
    \/ \E c \in 0..Len(ActCatalogs) : ActServices(c)
    \/ \E ok \in BOOLEAN : ActCalled(ok)
    \/ ActSensorResolve
    \/ \E k \in DOMAIN ActStateLists : ActSensorStates(k)
    \/ ActHubError

SpecAct == ActSpecInit /\ [][ActNext]_vars

\* two tasks, each calling the shared hub client once
WsSpecInit ==
    AdapterIdle /\ SelIdle /\ RunIdle /\ AccIdle /\ ClsIdle /\ HandlersIdle

WsNext ==
    \/ \E t \in WsTasks, ok \in BOOLEAN : WsCall(t, ok)
    \/ \E t \in WsTasks, good \in BOOLEAN : WsConnected(t, good)
    \/ \E t \in WsTasks : WsConnectFailed(t)
    \/ \E c \in WsConns, ok \in BOOLEAN : WsArrive(c, ok)
    \/ \E c \in WsConns : WsPeerClosed(c)

SpecWs == WsSpecInit /\ [][WsNext]_vars

\* the event loop runs every task that can run: a step the forwarder can take
\* is taken
SpecLive == LiveInit /\ [][LiveNext]_vars /\ WF_vars(LiveProgress)

----------------------------------------------------------------------------
(* Properties of the event forwarder, the registration and the shutdown *)

Subscribed == fpc \in {"recv", "posting"}

\* the index _build_entity_area_map would build from the hub's registry now
FreshIndex == BuildIndex(Registries[hubReg].devices, Registries[hubReg].entities)

\* the sockets the forwarder task has opened are all closed
ForwarderStreamsClosed ==
    hsWs = "none" /\ buildWs = "none" /\ ws = "none" /\ dangling = 0

\* C1: every entry into SUBSCRIBED comes with a rebuild of the Registry Index
\* from a fresh registry snapshot: while the forwarder is subscribed, and the
\* hub's registry has not changed since the connection cycle began, the index is
\* the one built from the hub's current registry.
C1_IndexFreshWhenSubscribed ==
    (Subscribed /\ ~regChanged) => index = FreshIndex

\* C2: a failure of the registry fetch (handshake, stream) is treated as a
\* connection failure, followed by a backoff and a retry: no step taken during
\* the index build, other than a cancellation, ends the task.
C2_BuildFailureRetries ==
    [][(fpc \in BuildPcs /\ ~cancelReq) => fpc' # "done"]_vars

\* C3: after a connection-level failure the forwarder closes the current stream
\* before it starts a new connection attempt: whenever the loop is about to
\* connect, no socket the forwarder opened is still open.
C3_StreamClosedBeforeReconnect ==
    fpc = "connect" => ForwarderStreamsClosed

\* C4: cancelling the task in any of its states ends it with no stream left
\* open: the step in which the cancellation ends the task leaves every socket of
\* the task closed and abandons none.
C4_CancelReleasesStreams ==
    [][(cancelReq /\ fpc # "done" /\ fpc' = "done")
        => (hsWs' = "none" /\ buildWs' = "none" /\ ws' = "none"
            /\ dangling' = dangling)]_vars

\* C5: an event or a current state that is "unknown", "unavailable" or absent,
\* or that has no entity id, is never handed to the value classifier and never
\* posted to the monitor, by the forwarder and by the startup registration, under
\* every allow-list and every index.
C5_UnusableNeverForwarded ==
    /\ classified # NotCalled => classified \notin {None, S_unknown, S_unavailable}
    /\ verdict \in {"posting", "delivered", "failed"} =>
          /\ curMsg.state \notin {None, S_unknown, S_unavailable}
          /\ curMsg.entity_id \notin {None, <<>>}
          /\ classified \in {NotCalled, curMsg.state}
    /\ rClassified # NotCalled => rClassified \notin {None, S_unknown, S_unavailable}
    /\ rpc = "posting" =>
          /\ HubStateLists[rStates][ri].state \notin {None, S_unknown, S_unavailable}
          /\ HubStateLists[rStates][ri].entity_id \notin {None, <<>>}
          /\ rClassified = HubStateLists[rStates][ri].state

\* the forwarder has skipped a state_changed event for its unusable state alone:
\* the entity's area resolves and the allow-list admits it
C5_Witness ==
    /\ fpc = "recv" /\ verdict = "skipped"
    /\ curMsg.type = "event" /\ curMsg.event_type = "state_changed"
    /\ curMsg.state = S_unavailable
    /\ curMsg.entity_id \in DOMAIN index.ent_to_area
    /\ (AREAS = {} \/ index.ent_to_area[curMsg.entity_id] \in AREAS)

\* C6: a message is forwarded if and only if it is a state_changed event with an
\* entity id and a usable state whose entity has an area in the Registry Index
\* that the allow-list admits, the empty allow-list admitting every area.
C6_ForwardedIffAreaAdmitted ==
    verdict # "none" =>
        ((verdict \in {"posting", "delivered", "failed"})
         <=> /\ curMsg.type = "event"
             /\ curMsg.event_type = "state_changed"
             /\ curMsg.entity_id \notin {None, <<>>}
             /\ curMsg.state \notin {None, S_unknown, S_unavailable}
             /\ curMsg.entity_id \in DOMAIN index.ent_to_area
             /\ (AREAS = {} \/ index.ent_to_area[curMsg.entity_id] \in AREAS))

\* under the empty allow-list an event with a usable state is being forwarded
C6_Witness ==
    /\ AREAS = {}
    /\ fpc = "posting"
    /\ curMsg.entity_id \in DOMAIN index.ent_to_area
    /\ index.ent_to_area[curMsg.entity_id] = "lab"

\* C7: for an event that passed the filters exactly one POST is made; when it
\* fails the event is dropped, and the forwarder is back at the receive of the
\* same connection, with the same index, without backoff.
C7_OneAttemptNoRetry ==
    /\ [](attempts <= 1)
    /\ [](verdict \in {"delivered", "failed"} => attempts = 1 /\ payload = NoPayload)
    /\ [][(fpc = "posting" /\ fpc' # "posting" /\ ~cancelReq)
           => /\ fpc' = "recv"
              /\ ws = "open" /\ ws' = "open"
              /\ hsWs' = hsWs /\ dangling' = dangling
              /\ index' = index
              /\ attempts' = 1
              /\ curMsg' = curMsg]_vars

\* a delivery has failed and the forwarder waits for the next event
C7_Witness ==
    /\ fpc = "recv" /\ verdict = "failed" /\ attempts = 1
    /\ ws = "open" /\ ~cancelReq

\* C8: the shutdown handler cancels the forwarder task and awaits its end before
\* it closes the shared connections, and when it completes no stream of the
\* forwarder is open.
C8_ShutdownLeavesNoStream ==
    /\ spc \in {"resets", "close", "done"} => fpc \in {"notcreated", "done"}
    /\ spc = "done" => ha_client_ws = "none" /\ ha_rest = "closed"
    /\ spc = "done" => ForwarderStreamsClosed

----------------------------------------------------------------------------
(* Properties of the service selector *)

\* what each command-line value of RawValues normalises to: parsed as JSON where
\* it is JSON, printed, trimmed and lower-cased
NormalOf(raw) ==
    CASE raw \in {W_on, R_ON, R_quoted_on} -> "on"
      [] raw \in {W_true, W_True}          -> "true"
      [] raw = W_1                         -> "1"
      [] raw = W_open                      -> "open"
      [] raw = W_off                       -> "off"
      [] raw = W_false                     -> "false"
      [] raw \in {W_0, R_minus0}           -> "0"
      [] raw = W_closed                    -> "closed"
      [] raw = W_close                     -> "close"
      [] raw = R_50                        -> "50"
      [] raw = W_null                      -> "none"
      [] raw = R_01                        -> "01"

OnWords == {"on", "true", "1", "open"}
OffWords == {"off", "false", "0", "closed", "close"}

\* the domain of each entity of SelEntities
DomainTable(ent) ==
    CASE ent = E_light  -> D_light
      [] ent = E_switch -> D_switch
      [] ent = E_fan    -> D_fan
      [] ent = E_bool   -> D_input_boolean
      [] ent = E_cover  -> D_cover
      [] ent = E_sensor -> D_sensor

Selected == sel_pc = "selected"
StateRequest == Selected /\ argv_prop = "state"
OnOffEntity == chosen_entity_id \in {E_light, E_switch, E_fan, E_bool}
Shortcut(name) ==
    /\ chosen = Choice(DomainTable(chosen_entity_id), name, {"entity_id"}, 100)
    /\ ~scored
    /\ candidates = <<>>

\* C9 as stated: for property "state" and an entity of light, switch, fan,
\* input_boolean or cover, a value normalising to on/true/1/open selects the
\* domain's turn-on operation (open_cover for cover) and one normalising to
\* off/false/0/closed/close selects its turn-off operation (close_cover for
\* cover), and no catalog service is scored.
C9_ShortcutForAllFiveDomains ==
    (StateRequest /\ (OnOffEntity \/ chosen_entity_id = E_cover)) =>
        /\ NormalOf(raw_value) \in OnWords =>
              Shortcut(IF chosen_entity_id = E_cover THEN SN_open_cover ELSE SN_turn_on)
        /\ NormalOf(raw_value) \in OffWords =>
              Shortcut(IF chosen_entity_id = E_cover THEN SN_close_cover ELSE SN_turn_off)

\* C9, amended: for property "state", an entity of light, switch, fan or
\* input_boolean gets turn_on for a value normalising to on/true/1/open and
\* turn_off for off/false/0/closed/close; a cover gets open_cover only for
\* "open" and close_cover only for "closed"/"close"; in these cases no catalog
\* service is scored.  Every other request, a cover asked for
\* on/true/1/off/false/0 included, gets no shortcut and goes through scoring.
C9_ShortcutPerDomain ==
    Selected =>
        LET n == NormalOf(raw_value)
        IN  IF argv_prop = "state" /\ OnOffEntity /\ n \in OnWords
            THEN Shortcut(SN_turn_on)
            ELSE IF argv_prop = "state" /\ OnOffEntity /\ n \in OffWords
            THEN Shortcut(SN_turn_off)
            ELSE IF argv_prop = "state" /\ chosen_entity_id = E_cover /\ n = "open"
            THEN Shortcut(SN_open_cover)
            ELSE IF argv_prop = "state" /\ chosen_entity_id = E_cover
                    /\ n \in {"closed", "close"}
            THEN Shortcut(SN_close_cover)
            ELSE scored /\ chosen.score # 100

\* a cover is opened by the shortcut, whatever the catalog offers
C9_Witness ==
    /\ StateRequest
    /\ chosen_entity_id = E_cover
    /\ raw_value = W_open
    /\ services = 2
    /\ chosen.name = SN_open_cover
    /\ ~scored

\* the service names that contain "set"
NamesWithSet == {SN_set_value, SN_set_cover_position, SN_reset}

\* the score of service j of domain i of the fetched catalog
ExpectedScore(i, j) ==
    LET d == Catalogs[services][i]
        f == d.services[j].meta.fields
        virtual == IF d.domain = D_virtual THEN 5 ELSE 0
        setter == IF d.services[j].name \in NamesWithSet THEN 3 ELSE 0
        field == IF argv_prop \in f THEN 3 ELSE 0
        generic == IF argv_prop = "state" /\ "value" \in f THEN 2 ELSE 0
        own == IF d.domain = DomainTable(chosen_entity_id) THEN 1 ELSE 0
    IN  virtual + setter + field + generic + own

\* service j of domain i declares an entity_id field, or an entry of its target
\* lists the entity's domain
ExpectedCandidate(i, j) ==
    LET meta == Catalogs[services][i].services[j].meta
    IN  \/ "entity_id" \in meta.fields
        \/ \E k \in 1..Len(meta.target) : DomainTable(chosen_entity_id) \in meta.target[k]

CatalogPositions ==
    {ij \in (1..Len(Catalogs[services])) \X (1..4) :
        ij[2] <= Len(Catalogs[services][ij[1]].services)}

Eligible ==
    {ij \in CatalogPositions :
        ExpectedCandidate(ij[1], ij[2]) /\ ExpectedScore(ij[1], ij[2]) > 0}

ChoiceAt(ij) ==
    LET d == Catalogs[services][ij[1]]
    IN  Choice(d.domain, d.services[ij[2]].name, d.services[ij[2]].meta.fields,
               ExpectedScore(ij[1], ij[2]))

\* C10: when scoring runs, the scored candidates are exactly the catalog's
\* services that declare an entity_id field or list the entity's domain in a
\* target entry and whose score is positive, each with the score
\* 5 (virtual) + 3 (name contains "set") + 3 (property is a field)
\* + 2 ("state" and a "value" field) + 1 (own domain); the chosen service is one
\* of them with the highest score, and nothing is chosen when there is none.
C10_CandidatesAndScores ==
    (Selected /\ scored) =>
        /\ {candidates[k] : k \in DOMAIN candidates} = {ChoiceAt(ij) : ij \in Eligible}
        /\ Len(candidates) = Cardinality(Eligible)
        /\ IF Eligible = {}
           THEN chosen = NoChoice
           ELSE /\ \E ij \in Eligible : chosen = ChoiceAt(ij)
                /\ \A ij \in Eligible : chosen.score >= ExpectedScore(ij[1], ij[2])
                /\ chosen.score > 0
        /\ (chosen_entity_id = E_sensor /\ services = 1 /\ argv_prop # "value") =>
              \E k \in DOMAIN candidates :
                  candidates[k] = Choice(D_virtual, SN_set_value, {"value"},
                                         IF argv_prop = "state" THEN 10 ELSE 8)

\* virtual.set_value with a "value" field, scored for a sensor: 10 for "state",
\* where virtual.reset (11) is chosen over it
C10_Witness ==
    /\ Selected /\ scored
    /\ chosen_entity_id = E_sensor
    /\ services = 1
    /\ argv_prop = "state"
    /\ \E k \in DOMAIN candidates :
          candidates[k] = Choice(D_virtual, SN_set_value, {"value"}, 10)
    /\ chosen = Choice(D_virtual, SN_reset, {"entity_id", "state"}, 11)

\* position ij comes before position kl in the catalog's enumeration
Before(ij, kl) == ij[1] < kl[1] \/ (ij[1] = kl[1] /\ ij[2] < kl[2])

\* the eligible positions of the highest score
Best == {ij \in Eligible : \A kl \in Eligible :
            ExpectedScore(ij[1], ij[2]) >= ExpectedScore(kl[1], kl[2])}

\* C11: when scoring runs and there are candidates, the chosen service is the
\* one of the highest score that the catalog enumerates first (domain order,
\* then service order within the domain); the choice is thereby a function of
\* the catalog and the request.
C11_FirstOfHighestScore ==
    (Selected /\ scored /\ Eligible # {}) =>
        \E ij \in Best :
            /\ \A kl \in Best : kl = ij \/ Before(ij, kl)
            /\ chosen = ChoiceAt(ij)

\* a cover asked for "value": the two cover setters tie at 7, after the lower
\* input_number.set_value (6), and the first of the two is chosen
C11_Witness ==
    /\ Selected /\ scored
    /\ services = 4
    /\ chosen_entity_id = E_cover
    /\ argv_prop = "value"
    /\ Best = {<<2, 1>>, <<2, 2>>}
    /\ <<1, 1>> \in Eligible
    /\ chosen = Choice(D_cover, SN_set_cover_position, {"entity_id", "value"}, 7)

\* the run has sent its service call
Called == sel_pc \in {"calling", "done", "failed"} /\ writes = <<"service">>

\* C12 as stated: the payload of a service call contains the entity key and
\* carries the value under exactly one key: "value" if the service declares a
\* "value" field, else the requested property name (declared or not).
C12_ValueUnderOneKey ==
    Called =>
        LET key == IF "value" \in chosen.fields THEN "value" ELSE argv_prop
        IN  /\ "entity_id" \in DOMAIN request
            /\ request["entity_id"] = StrValue(chosen_entity_id)
            /\ DOMAIN request = {"entity_id", key}
            /\ request[key] = ParseValue(raw_value)

\* what the code does instead: "value" is used only for property "state", which
\* without a "value" field sends no value at all; every other property is sent
\* under its own name
C12_PayloadOfTheCode ==
    Called =>
        /\ request["entity_id"] = StrValue(chosen_entity_id)
        /\ IF argv_prop = "state"
           THEN IF "value" \in chosen.fields
                THEN DOMAIN request = {"entity_id", "value"}
                     /\ request["value"] = ParseValue(raw_value)
                ELSE DOMAIN request = {"entity_id"}
           ELSE DOMAIN request = {"entity_id", argv_prop}
                /\ request[argv_prop] = ParseValue(raw_value)

\* virtual.set_value, which declares "value", is sent "brightness" instead
C12_Witness ==
    /\ Called
    /\ chosen = Choice(D_virtual, SN_set_value, {"value"}, 8)
    /\ argv_prop = "brightness"
    /\ raw_value = R_50
    /\ DOMAIN request = {"entity_id", "brightness"}

----------------------------------------------------------------------------
(* Properties of the Registry Index Builder *)

\* the lists the forwarder's index was built from
FetchedDevices == Registries[devices].devices
FetchedEntities == Registries[entities].entities

\* the area entity e is to map to: its own, else that of the device it refers
\* to, else none
ExpectedArea(e) ==
    LET devs == {FetchedDevices[i] : i \in DOMAIN FetchedDevices}
        mine == {d \in devs : d.id = e.device_id}
    IN  IF e.area_id # Nil THEN e.area_id
        ELSE IF \E d \in mine : d.area_id # Nil
        THEN (CHOOSE d \in mine : d.area_id # Nil).area_id
        ELSE Nil

IndexBuilt == fpc \in LoopPcs

\* C14: in the index built from the fetched lists, an entity maps to its own
\* area if it has one, else to the area of the device it refers to; an entity
\* with neither (its device missing from the device registry included) is not
\* in the entity-to-area map, and no event on it is forwarded; the
\* entity-to-device map holds exactly the entities that have a device_id.
C14_IndexMapsOwnAreaThenDevice ==
    IndexBuilt =>
        LET ents == {FetchedEntities[i] : i \in DOMAIN FetchedEntities}
        IN  /\ DOMAIN index.ent_to_area =
                  {e.entity_id : e \in {x \in ents : ExpectedArea(x) # Nil}}
            /\ \A e \in ents :
                  ExpectedArea(e) # Nil => index.ent_to_area[e.entity_id] = ExpectedArea(e)
            /\ DOMAIN index.ent_to_device =
                  {e.entity_id : e \in {x \in ents : x.device_id # Nil}}
            /\ \A e \in ents :
                  e.device_id # Nil => index.ent_to_device[e.entity_id] = e.device_id
            /\ \A e \in ents :
                  (ExpectedArea(e) = Nil /\ curMsg.entity_id = e.entity_id)
                      => verdict \in {"none", "skipped"}

\* devices of the first snapshot, entities of the first: the lamp has its
\* device's area, the sensor its own although its device has another, the
\* switch (device missing) and the fan (no device) none, and an event on the
\* switch is dropped
C14_Witness ==
    /\ IndexBuilt
    /\ devices = 1 /\ entities = 1
    /\ index.ent_to_area[E_light] = "kitchen"
    /\ index.ent_to_area[E_sensor] = "lab"
    /\ index.ent_to_area[E_bool] = "kitchen"
    /\ E_switch \notin DOMAIN index.ent_to_area
    /\ E_fan \notin DOMAIN index.ent_to_area
    /\ E_switch \in DOMAIN index.ent_to_device
    /\ curMsg.entity_id = E_switch /\ curMsg.state = S_on
    /\ verdict = "skipped"

----------------------------------------------------------------------------
(* Properties of the Illuminance Accumulator *)

\* max(0, x)
Floor0(x) == IF x < 0 THEN 0 ELSE x

\* an adjustment has computed its new value and is writing it
Writing == acc_pc \in {"set", "fb_get", "fb_set"}

\* C15: every value the accumulator writes is non-negative, and is
\* max(0, latest fetched value + delta), for every configuration and every
\* sequence of events.
C15_WritesNeverNegative ==
    /\ \A i \in DOMAIN written : written[i] >= 0
    /\ Writing =>
          /\ new_val >= 0
          /\ cur_val = CurVal(seen)
          /\ new_val = Floor0(cur_val + delta)
    /\ (written # <<>> /\ ~external) =>
          /\ hub_sensor = FloatText(written[Len(written)])
          /\ Head(hub_sensor) # "-"

\* the sensor held 20 and a light went off with a decrement of 50: 0 is written
C15_Witness ==
    /\ acc_pc = "recv"
    /\ dec_light = 500
    /\ seen = S_20 /\ cur_val = 200 /\ delta = 0 - 500
    /\ written = <<0>>
    /\ hub_sensor = <<"0", ".", "0">>

C17_WriteIsNotAtomic ==
    /\ [][written' # written =>
            /\ acc_pc \in {"set", "fb_set"}
            /\ hub_sensor' = FloatText(Floor0(cur_val + delta))
            /\ cur_val = CurVal(seen)]_vars
    /\ [][(acc_msg' # acc_msg \/ adjustments' # adjustments \/ delta' # delta)
            => (acc_pc = "recv" /\ acc_pc' \in {"recv", "get"})]_vars
    /\ [](lost => external)

\* another writer wrote 70 after the accumulator had read 40; the accumulator
\* then wrote 140
C17_Witness ==
    /\ lost /\ external
    /\ acc_pc = "recv"
    /\ seen = S_40
    /\ written = <<1400>>
    /\ hub_sensor = <<"1", "4", "0", ".", "0">>

\* the current_position an attribute value stands for, if any
IsPosition(v) == v \in {IntValue(30), IntValue(50), IntValue(70), StrValue(S_70)}
Position(v) ==
    CASE v = IntValue(30) -> 30
      [] v = IntValue(50) -> 50
      [] v \in {IntValue(70), StrValue(S_70)} -> 70

Received == acc_msg.type = "event"

----------------------------------------------------------------------------
(* Properties of the Value Classifier *)

Classified == cls_result.type \notin {"", "pending"}

\* the characters of a text are all taken from a set
Over(t, chars) == \A i \in DOMAIN t : t[i] \in chars

\* what _infer_value_and_type returns for states whose reading is known
KnownResults ==
    {<<W_on, BoolValue(TRUE), XSD_BOOL>>,
     <<W_off, BoolValue(FALSE), XSD_BOOL>>,
     <<S_21, IntValue(21), XSD_INT>>,
     <<S_23_5, FloatValue(FALSE, 235, 0 - 1), XSD_DOUBLE>>,
     <<S_unlocked, StrValue(S_unlocked), XSD_STRING>>,
     <<S_unknown, StrValue(S_unknown), XSD_STRING>>,
     <<S_ON, StrValue(S_ON), XSD_STRING>>,
     <<W_true, StrValue(W_true), XSD_STRING>>,
     <<<<>>, StrValue(<<>>), XSD_STRING>>,
     <<<<"-">>, StrValue(<<"-">>), XSD_STRING>>,
     <<<<"e">>, StrValue(<<"e">>), XSD_STRING>>,
     <<<<"1", " ", "5">>, StrValue(<<"1", " ", "5">>), XSD_STRING>>,
     <<<<"1", "e">>, StrValue(<<"1", "e">>), XSD_STRING>>,
     <<<<".">>, StrValue(<<".">>), XSD_STRING>>,
     <<<<"0">>, IntValue(0), XSD_INT>>,
     <<<<"-", "5">>, IntValue(0 - 5), XSD_INT>>,
     <<<<" ", "5", " ">>, IntValue(5), XSD_INT>>,
     <<<<"0", "1", "5">>, IntValue(15), XSD_INT>>,
     <<<<"-", "0">>, IntValue(0), XSD_INT>>,
     <<S_plus5, IntValue(5), XSD_INT>>,
     <<S_1_0, IntValue(10), XSD_INT>>,
     <<S_1__0, StrValue(S_1__0), XSD_STRING>>,
     <<<<"1", ".", "5">>, FloatValue(FALSE, 15, 0 - 1), XSD_DOUBLE>>,
     <<<<"1", ".", "0">>, FloatValue(FALSE, 1, 0), XSD_DOUBLE>>,
     <<<<"5", ".">>, FloatValue(FALSE, 5, 0), XSD_DOUBLE>>,
     <<<<".", "5">>, FloatValue(FALSE, 5, 0 - 1), XSD_DOUBLE>>,
     <<<<"-", ".", "5">>, FloatValue(TRUE, 5, 0 - 1), XSD_DOUBLE>>,
     <<<<"-", ".", "0">>, FloatValue(TRUE, 0, 0), XSD_DOUBLE>>,
     <<<<"1", "e", "1">>, FloatValue(FALSE, 1, 1), XSD_DOUBLE>>,
     <<<<"5", "e", "0">>, FloatValue(FALSE, 5, 0), XSD_DOUBLE>>,
     <<S_1E2, FloatValue(FALSE, 1, 2), XSD_DOUBLE>>,
     <<S_1e555, InfValue(FALSE), XSD_DOUBLE>>,
     <<S_Inf, InfValue(TRUE), XSD_DOUBLE>>,
     <<W_nan, NanValue(FALSE), XSD_DOUBLE>>}

\* C20: the Value Classifier returns a result for every state, by the first
\* rule that matches: "on" is true and "off" is false, of type boolean; else a
\* state int() reads is that integer, of type integer; else a state float()
\* reads is that float, of type double; else the state itself, of type string.
C20_FirstMatchingRule ==
    Classified =>
        /\ cls_result.type \in {XSD_BOOL, XSD_INT, XSD_DOUBLE, XSD_STRING}
        /\ \A k \in KnownResults :
              cls_state = k[1] => cls_result = [value |-> k[2], type |-> k[3]]
        /\ cls_result.type = XSD_BOOL <=> cls_state \in {W_on, W_off}
        /\ cls_result.type = XSD_INT =>
              /\ cls_result.value.kind = "int"
              /\ Over(Strip(cls_state), DigitSet \cup {"-", "+", "_"})
        /\ (cls_state # <<>> /\ Over(cls_state, DigitSet)) =>
              cls_result = [value |-> IntValue(DigitsValue(cls_state)), type |-> XSD_INT]
        /\ cls_result.type = XSD_DOUBLE =>
              /\ cls_result.value.kind = "double"
              /\ ~Over(Strip(cls_state), DigitSet \cup {"-", "+", "_"})
              /\ \E i \in DOMAIN cls_state : cls_state[i] \in DigitSet \cup {"n", "N"}
        /\ cls_result.type = XSD_STRING => cls_result.value = StrValue(cls_state)
        /\ (\E i \in DOMAIN Strip(cls_state) : Strip(cls_state)[i] = " ") =>
              cls_result.type = XSD_STRING

\* "23.5" is classified as the double 23.5
C20_Witness ==
    /\ cls_state = S_23_5
    /\ cls_result = [value |-> FloatValue(FALSE, 235, 0 - 1), type |-> XSD_DOUBLE]

----------------------------------------------------------------------------
(* Properties of the artifact description *)

Described == art_pc = "done" /\ art_status = 200

\* the catalog the description was made from
ArtCatalog == IF art_services <= 0 THEN <<>> ELSE Catalogs[art_services]

ArtDomains == {DomainOf(art_entities[i].entity_id) : i \in DOMAIN art_entities}

\* the (domain of the device, namespace entry, service) triples of the catalog
\* whose service is described as applying to the domain
ApplicablePairs ==
    {t \in ArtDomains \X (DOMAIN ArtCatalog) \X (1..4) :
        /\ t[3] \in DOMAIN ArtCatalog[t[2]].services
        /\ Applies(ArtCatalog[t[2]].services[t[3]].meta, t[1])}

IsServiceAction(a) == a.target.kind = "ha"
IsSensorAction(a) == a.target.kind = "sensor"

\* the number of actions of the description with that name
Occurrences(name) == Cardinality({i \in DOMAIN art_actions : art_actions[i].name = name})

\* C21 as stated: the description has a service action for every pair of a
\* domain of the device and a catalog service that applies to it, whatever
\* namespace owns the service, and for no other pair.
C21_EveryApplicablePair ==
    Described =>
        /\ \A t \in ApplicablePairs :
              \E i \in DOMAIN art_actions :
                  /\ IsServiceAction(art_actions[i])
                  /\ art_actions[i].target.a = Quote(t[1])
                  /\ art_actions[i].target.b = Quote(ArtCatalog[t[2]].services[t[3]].name)
        /\ \A i \in DOMAIN art_actions :
              IsServiceAction(art_actions[i]) =>
                  \E t \in ApplicablePairs :
                      /\ art_actions[i].target.a = Quote(t[1])
                      /\ art_actions[i].target.b = Quote(ArtCatalog[t[2]].services[t[3]].name)

\* what the code does instead: only the services of the namespace named like
\* the domain are looked at
C21_OwnNamespaceOnly ==
    Described =>
        /\ \A i \in DOMAIN art_actions :
              IsServiceAction(art_actions[i]) =>
                  \E t \in ApplicablePairs :
                      /\ ArtCatalog[t[2]].domain = t[1]
                      /\ art_actions[i].target.a = Quote(t[1])
                      /\ art_actions[i].target.b = Quote(ArtCatalog[t[2]].services[t[3]].name)
        /\ \A t \in ApplicablePairs :
              (/\ ArtCatalog[t[2]].domain = t[1]
               /\ \A k \in DOMAIN ArtCatalog : ArtCatalog[k].domain = t[1] => k <= t[2])
              => \E i \in DOMAIN art_actions :
                    /\ IsServiceAction(art_actions[i])
                    /\ art_actions[i].target.a = Quote(t[1])
                    /\ art_actions[i].target.b = Quote(ArtCatalog[t[2]].services[t[3]].name)

FixedActions ==
    {A_getArtifactRepresentation, A_updateArtifactRepresentation,
     A_deleteArtifactRepresentation, A_focusArtifact, A_subscribeToArtifact,
     A_unsubscribeFromArtifact}

\* C22 as stated: whatever entities the device has, none included, whatever the
\* catalog and whether or not it could be fetched, the answer for a device of
\* the workspace is a description with each of the six fixed actions once.
C22_SixFixedActionsAlways ==
    (art_pc = "done" /\ art_device # NoDevice /\ art_status # 500) =>
        /\ art_status = 200
        /\ \A n \in FixedActions : Occurrences(n) = 1

\* what the code does: every description it returns has the six actions once
\* each, and a device without entities gets none
C22_SixInEveryDescription ==
    /\ Described =>
          /\ \A n \in FixedActions : Occurrences(n) = 1
          /\ art_entities # <<>>
    /\ (art_pc = "done" /\ art_device # NoDevice /\ art_entities = <<>> /\ art_status # 500)
          => (art_status = 404 /\ art_actions = <<>>)

\* what _sensor_action_name returns for the attributes of the states here
KnownNames ==
    {<<DC_temperature, U_degC, <<"g", "e", "t", "T", "e", "m", "p", "e", "r", "a", "t", "u", "r", "e", "I", "n", "D", "e", "g", "c">>>>,
     <<None, U_percent, <<"g", "e", "t", "I", "n", "P", "e", "r", "c", "e", "n", "t">>>>,
     <<DC_temperature, U_kWh, <<"g", "e", "t", "T", "e", "m", "p", "e", "r", "a", "t", "u", "r", "e", "I", "n", "K", "w", "h">>>>,
     <<DC_carbon_dioxide, U_m_s, <<"g", "e", "t", "C", "a", "r", "b", "o", "n", "D", "i", "o", "x", "i", "d", "e", "I", "n", "M", "s">>>>,
     <<None, U_kWh, <<"g", "e", "t", "I", "n", "K", "w", "h">>>>,
     <<DC_blank, U_kWh, <<"g", "e", "t", "I", "n", "K", "w", "h">>>>,
     <<DC_temperature, None, None>>,
     <<DC_temperature, U_deg, None>>,
     <<DC_temperature, <<>>, None>>,
     <<None, None, None>>}

\* the sensor actions of the description
SensorActionsOf == SelectSeq(art_actions, IsSensorAction)

\* the device's sensor entities, by their places in device_entities
SensorPlaces == {i \in DOMAIN art_entities : DomainOf(art_entities[i].entity_id) = D_sensor}

\* the attributes of the last state object of the first sensor, none when the
\* states do not hold it
FirstSensorAttrs ==
    LET first == art_entities[CHOOSE i \in SensorPlaces : \A j \in SensorPlaces : i <= j].entity_id
        sts == ArtStateLists[art_states]
        own == {i \in DOMAIN sts : sts[i].entity_id = first}
        st == sts[CHOOSE i \in own : \A j \in own : j <= i]
    IN  IF own = {} THEN <<None, None>>
        ELSE <<Get(st.attributes, "device_class"), Get(st.attributes, "unit_of_measurement")>>

\* C23: a description has at most one sensor action, and none for a device
\* without a sensor; it is named after the device class and the unit of the
\* first sensor entity: get<DeviceClass>In<Unit>, getIn<Unit> without a device
\* class, the unit looked up in the table first and else stripped to its letters
\* and digits; there is none when the unit is missing or strips to nothing.
C23_SensorActionOfFirstSensor ==
    Described =>
        /\ Len(SensorActionsOf) <= 1
        /\ SensorPlaces = {} => SensorActionsOf = <<>>
        /\ SensorPlaces # {} =>
              \E k \in KnownNames :
                  /\ <<k[1], k[2]>> = FirstSensorAttrs
                  /\ IF k[3] = None THEN SensorActionsOf = <<>>
                     ELSE /\ Len(SensorActionsOf) = 1
                          /\ SensorActionsOf[1].name = k[3]

\* the first sensor of "L 1" measures a temperature in °C
C23_Witness ==
    /\ Described
    /\ art_device.id = "d1"
    /\ art_entities[1].entity_id = E_sensor
    /\ art_states = 1
    /\ Len(SensorActionsOf) = 1
    /\ SensorActionsOf[1].name = <<"g", "e", "t", "T", "e", "m", "p", "e", "r", "a", "t", "u", "r", "e", "I", "n", "D", "e", "g", "c">>

----------------------------------------------------------------------------
(* Properties of the reset calls *)

\* C25: a reset call ends, after at most 5 POSTs; it makes no POST after one that
\* succeeded; _post_with_retries returns True exactly when a POST succeeded, and
\* False, not an error, when all 5 failed.
C25_ResetIsBounded ==
    /\ [](/\ Len(reset_posts) <= 5
          /\ \A i \in DOMAIN reset_posts : reset_posts[i].ok => i = Len(reset_posts)
          /\ reset_pc = "done" =>
                /\ reset_result \in {"skipped", "true", "false"}
                /\ reset_result = "true" <=> \E i \in DOMAIN reset_posts : reset_posts[i].ok
                /\ reset_result = "false" =>
                      (Len(reset_posts) = 5 /\ \A i \in DOMAIN reset_posts : ~reset_posts[i].ok)
                /\ reset_result = "skipped" <=> reset_call.url = <<>>
          /\ (reset_pc = "attempt" /\ reset_posts # <<>>) =>
                ~reset_posts[Len(reset_posts)].ok)
    /\ (reset_pc = "start") ~> (reset_pc = "done")

\* the shutdown's monitor reset has failed five times and returned False
C25_Witness ==
    /\ reset_pc = "done"
    /\ reset_call.caller = "shutdown"
    /\ reset_call.path = W_reset_path
    /\ reset_url = <<"m", "/", "r", "e", "s", "e", "t">>
    /\ Len(reset_posts) = 5
    /\ reset_posts[5] = [delay |-> 8, ok |-> FALSE]
    /\ reset_result = "false"

----------------------------------------------------------------------------
(* Properties of an adapter without a monitor *)

\* C24: while MONITOR_URL is empty the forwarder task is never created, so no
\* socket of the event stream is ever opened and no notification is posted; the
\* startup registration posts nothing; and neither the startup's nor the
\* shutdown's monitor reset reaches a POST.
C24_NoMonitorNoTraffic ==
    MONITOR_URL = "" =>
        /\ forward_task = "none"
        /\ fpc = "notcreated"
        /\ hsWs = "none" /\ buildWs = "none" /\ ws = "none" /\ dangling = 0
        /\ payload = NoPayload /\ attempts = 0
        /\ rpc \in {"notcreated", "scheduled", "done"}
        /\ rPayload = NoPayload
        /\ monitor_resets = {}

\* an adapter without a monitor has started, run its registration task and
\* shut down, reset calls included
C24_Witness ==
    /\ MONITOR_URL = ""
    /\ apc = "shutdown" /\ spc = "done"
    /\ resetResult # "none"
    /\ rpc = "done"
    /\ AREAS # {}

----------------------------------------------------------------------------
(* Properties of the notification *)

\* the device record the forwarder's index resolves entity e to has a name
HasNamedDevice(e) ==
    /\ e \in DOMAIN index.ent_to_device
    /\ index.ent_to_device[e] \in DOMAIN index.dev_by_id
    /\ index.dev_by_id[index.ent_to_device[e]].name \notin {None, <<>>}

\* C26: the notification being posted names the artifact by the name of the
\* device record the entity resolves to, when there is one with a name, and
\* else by the entity id after its first dot (percent-encoded, as part of a
\* URI); its property URI ends in the event's device_class when that is there
\* and not empty, and else in "state"; its value and value type are what
\* _infer_value_and_type returns for the event's state.
C26_NotificationFields ==
    fpc = "posting" =>
        LET e == curMsg.entity_id
            name == payload.artifactUri[1][5]
        IN  /\ payload.artifactUri[1] = payload.propertyUri[1]
            /\ HasNamedDevice(e) =>
                  name = Quote(index.dev_by_id[index.ent_to_device[e]].name)
            /\ ~HasNamedDevice(e) => name = Quote(ObjectId(e))
            /\ e = E_light => name \in {<<"L", "%", "2", "0", "1">>, <<"L", "2">>}
            /\ e = E_sensor => name = <<"t", ".", "a">>
            /\ e = E_switch => name = <<"x">>
            /\ payload.propertyUri[3] =
                  (IF curMsg.device_class \in {Nil, ""} THEN "state"
                   ELSE curMsg.device_class)
            /\ payload.value = InferValueAndType(curMsg.state).value
            /\ payload.valueTypeUri = InferValueAndType(curMsg.state).type
            /\ curMsg.state = S_on =>
                  payload.value = BoolValue(TRUE) /\ payload.valueTypeUri = XSD_BOOL
            /\ curMsg.state = S_21 =>
                  payload.value = IntValue(21) /\ payload.valueTypeUri = XSD_INT
            /\ curMsg.state = S_23_5 =>
                  /\ payload.value = FloatValue(FALSE, 235, 0 - 1)
                  /\ payload.valueTypeUri = XSD_DOUBLE
            /\ curMsg.state = S_unlocked =>
                  /\ payload.value = StrValue(S_unlocked)
                  /\ payload.valueTypeUri = XSD_STRING

\* the notification of a temperature of 23.5 from a sensor whose device has no
\* name is being posted
C26_Witness ==
    /\ fpc = "posting"
    /\ curMsg.entity_id = E_sensor
    /\ curMsg.state = S_23_5
    /\ ~HasNamedDevice(E_sensor)
    /\ E_sensor \in DOMAIN index.ent_to_device
    /\ payload.propertyUri[3] = "temperature"
    /\ payload.valueTypeUri = XSD_DOUBLE

----------------------------------------------------------------------------
(* Properties of the forwarder's use of its index *)

\* C27: the forwarder's three maps change in one step only, the return of
\* _build_entity_area_map at line 232; receiving, skipping, classifying and
\* posting an event, a failed POST, a reconnection, and every step of the
\* registration task, of the shutdown and of the hub leave them as they are.
C27_IndexReadOnlyBetweenBuilds ==
    [][index' # index =>
          /\ fpc = "build_wait" /\ fpc' = "connect"
          /\ index' = BuildIndex(Registries[devices].devices,
                                 Registries[entities].entities)]_vars

\* the forwarder holds its maps after a failed delivery, while the hub's
\* registry has changed and the registration task has built maps of its own
C27_Witness ==
    /\ fpc = "recv"
    /\ verdict = "failed"
    /\ attempts = 1
    /\ index # NoIndex
    /\ regChanged
    /\ rIndex # NoIndex
    /\ rIndex # index

----------------------------------------------------------------------------
(* Properties of set-property.py's resolution of the artifact *)

\* the first device of Home with the name given
FirstNamed ==
    Home.devices[CHOOSE i \in DOMAIN Home.devices :
        /\ Home.devices[i].name = pick_argv.artifact_name
        /\ \A j \in 1..(i - 1) : Home.devices[j].name # pick_argv.artifact_name]

\* C28: a run that has chosen its entity has resolved the first device of the
\* registry with the given name, and has chosen the first entity of the entity
\* registry that belongs to that device, whatever the property.
C28_FirstDeviceFirstEntity ==
    pick_pc = "done" =>
        /\ pick_device = FirstNamed
        /\ \E i \in DOMAIN Home.entities :
              /\ Home.entities[i].entity_id = pick_entity_id
              /\ Home.entities[i].device_id = pick_device.id
              /\ \A j \in 1..(i - 1) : Home.entities[j].device_id # pick_device.id

\* what holds instead: the device is the first of that name; the entity is the
\* device's first one of a preferred domain when the property is "state",
\* "brightness" or "brightness_pct" and the device has one, and else its first
C28_FirstDevicePreferredEntity ==
    pick_pc = "done" =>
        /\ pick_device = FirstNamed
        /\ \E i \in DOMAIN pick_entities :
              LET pref(k) == DomainOf(pick_entities[k].entity_id)
                                \in Preferred(pick_argv.prop)
              IN  /\ pick_entities[i].entity_id = pick_entity_id
                  /\ \/ pref(i) /\ \A j \in 1..(i - 1) : ~pref(j)
                     \/ i = 1 /\ \A j \in DOMAIN pick_entities : ~pref(j)

----------------------------------------------------------------------------
(* Properties of _set_sensor_value *)

\* the places of the catalog of the call: entry i, service j
SetPlaces ==
    {p \in (DOMAIN SetCatalogs[ssv_services]) \X (1..3) :
        p[2] \in DOMAIN SetCatalogs[ssv_services][p[1]].services}

SetDomain(p) == SetCatalogs[ssv_services][p[1]].domain
SetService(p) == SetCatalogs[ssv_services][p[1]].services[p[2]]

\* the service declares an entity_id field, or one of its targets lists sensor
AppliesToSensor(p) ==
    \/ "entity_id" \in SetService(p).meta.fields
    \/ \E i \in DOMAIN SetService(p).meta.target : D_sensor \in SetService(p).meta.target[i]

\* 5 for the virtual namespace, 3 for "set" in the name or a value field
PointsOf(p) ==
    (IF SetDomain(p) = D_virtual THEN 5 ELSE 0)
    + (IF Contains(SetService(p).name, W_set) \/ "value" \in SetService(p).meta.fields
       THEN 3 ELSE 0)

Qualifies(p) == AppliesToSensor(p) /\ PointsOf(p) > 0

\* place p comes before place q in the catalog
ComesBefore(p, q) == p[1] < q[1] \/ (p[1] = q[1] /\ p[2] < q[2])

\* C29: the picked service applies to a sensor and has a positive score, no
\* qualifying service has more and none before it as much; nothing is picked
\* only when no service qualifies; when a virtual service applies to a sensor
\* the picked one is virtual.  With a picked service the one POST is its call
\* with the entity and the value; with none it is the state set of the value
\* with the attributes the hub answered.
C29_PickAndWrite ==
    ssv_pc \notin {"idle", "pick"} =>
        /\ ssv_picked # NoChoice =>
              \E p \in SetPlaces :
                  /\ Qualifies(p)
                  /\ ssv_picked.domain = SetDomain(p)
                  /\ ssv_picked.name = SetService(p).name
                  /\ ssv_picked.fields = SetService(p).meta.fields
                  /\ \A q \in SetPlaces : Qualifies(q) => PointsOf(q) <= PointsOf(p)
                  /\ \A q \in SetPlaces :
                        (Qualifies(q) /\ ComesBefore(q, p)) => PointsOf(q) < PointsOf(p)
        /\ ssv_picked = NoChoice => \A p \in SetPlaces : ~Qualifies(p)
        /\ (\E p \in SetPlaces : AppliesToSensor(p) /\ SetDomain(p) = D_virtual)
              => ssv_picked.domain = D_virtual
        /\ Len(ssv_posts) <= 1
        /\ ssv_pc \in {"call", "fb_set", "done"} => Len(ssv_posts) = 1
        /\ ssv_posts # <<>> =>
              IF ssv_picked = NoChoice
              THEN /\ ssv_posts[1].path = <<"/api/states/", E_sensor>>
                   /\ ssv_posts[1].json.state = ssv_new_value
                   /\ ssv_posts[1].json.attributes =
                         (IF SensorObjects[ssv_current].attributes = NullValue
                          THEN EmptyMap ELSE SensorObjects[ssv_current].attributes)
              ELSE /\ ssv_posts[1].path =
                         <<"/api/services/", ssv_picked.domain, "/", ssv_picked.name>>
                   /\ ssv_posts[1].json =
                         [entity_id |-> StrValue(E_sensor), value |-> ssv_new_value]

\* virtual.turn_on, which comes after sensor.set_value, has been called
C29_Witness ==
    /\ ssv_pc = "done"
    /\ ssv_picked.domain = D_virtual
    /\ ssv_picked.name = SN_turn_on
    /\ \E p \in SetPlaces : Qualifies(p) /\ SetDomain(p) = D_sensor

\* without a qualifying service the state was set, attributes included
C29_WitnessDirect ==
    /\ ssv_pc = "done"
    /\ ssv_picked = NoChoice
    /\ \E p \in SetPlaces : AppliesToSensor(p)
    /\ ssv_posts[1].json.attributes # EmptyMap

----------------------------------------------------------------------------
(* Properties of set-property.py's direct state set *)

\* C30: the body of the direct state set holds, for the property "state", the
\* value as the state and the attributes the hub answered; for another
\* property, the state the hub answered and its attributes with that one key
\* set to the value, every other key as it was.
C30_FallbackChangesOneThing ==
    sel_pc = "state_post" =>
        LET cur == HubEntityStates[current]
            value == ParseValue(raw_value)
            attrs == payload_state.attributes
        IN  IF argv_prop = "state"
            THEN /\ payload_state.state = value
                 /\ attrs = cur.attributes
            ELSE /\ payload_state.state = cur.state
                 /\ DOMAIN attrs = DOMAIN cur.attributes \cup {argv_prop}
                 /\ attrs[argv_prop] = value
                 /\ \A k \in DOMAIN cur.attributes \ {argv_prop} : attrs[k] = cur.attributes[k]

\* "value" is being added to the attributes of an entity that has brightness
\* and friendly_name
C30_Witness ==
    /\ sel_pc = "state_post"
    /\ argv_prop = "value"
    /\ current = 1
    /\ DOMAIN payload_state.attributes = {"brightness", "friendly_name", "value"}
    /\ payload_state.state = StrValue(S_on)

\* the brightness of that entity is being replaced
C30_WitnessReplace ==
    /\ sel_pc = "state_post"
    /\ argv_prop = "brightness"
    /\ current = 1
    /\ payload_state.attributes.brightness # IntValue(10)
    /\ payload_state.attributes.friendly_name = StrValue(N_lamp)

\* the state of that entity is being replaced
C30_WitnessState ==
    /\ sel_pc = "state_post"
    /\ argv_prop = "state"
    /\ current = 1
    /\ payload_state.state # StrValue(S_on)
    /\ DOMAIN payload_state.attributes = {"brightness", "friendly_name"}

----------------------------------------------------------------------------
(* Properties of the forwarder's connections *)

Open(sock) == IF sock = "open" THEN 1 ELSE 0

\* the sockets the forwarder task has opened that are open
OpenStreams == Open(hsWs) + Open(buildWs) + Open(ws) + dangling

\* C31: the forwarder has at most one connection open at any moment, and none
\* once the task has ended.
C31_AtMostOneStream ==
    /\ OpenStreams <= 1
    /\ fpc = "done" => OpenStreams = 0

\* what holds instead: of the sockets the task still refers to at most one is
\* open, none when the task has ended, and none when a connection attempt begins
C31_AtMostOneReferredStream ==
    /\ Open(hsWs) + Open(buildWs) + Open(ws) <= 1
    /\ fpc = "done" => Open(hsWs) + Open(buildWs) + Open(ws) = 0
    /\ fpc = "connect" => Open(hsWs) + Open(buildWs) + Open(ws) = 0

----------------------------------------------------------------------------
(* Properties of the forwarder's progress *)

\* C32: if from some point on the hub accepts connections and its streams stay
\* up, the forwarder, never cancelled, is subscribed from some point on.
C32_EventuallySubscribedForGood ==
    <>[]healthy => <>[]Subscribed

\* what holds instead: when the hub recovers after _build_entity_area_map has
\* returned, the forwarder is subscribed from some point on
C32_SubscribedOnceBuilt ==
    <>[](healthy /\ fpc \in LoopPcs) => <>[]Subscribed

----------------------------------------------------------------------------
(* Properties of the action endpoints *)

\* the catalog the endpoint looked the service up in
ActCatalog == IF act_services <= 0 THEN <<>> ELSE ActCatalogs[act_services]

\* the artifact of the request: its entities, none when there is no such artifact
ActArtifact ==
    ResolveDeviceAndEntities(Home, act_request.workspace_id,
                             act_request.artifact_name).device_entities

\* the artifact's entities of the requested domain, in the registry's order
OwnOfDomain ==
    SelectSeq([i \in DOMAIN ActArtifact |-> ActArtifact[i].entity_id],
              LAMBDA e : DomainOf(e) = act_request.domain)

\* some entry of the catalog for the requested domain has the requested service
ExistsInDomain ==
    \E i \in DOMAIN ActCatalog :
        /\ ActCatalog[i].domain = act_request.domain
        /\ \E j \in DOMAIN ActCatalog[i].services :
              ActCatalog[i].services[j].name = act_request.service

ServiceRequestDone == act_request.kind = "ha" /\ act_pc = "done"

\* C35: a service call made through the action endpoint carries the
\* artifact's own first entity of the requested domain as entity_id, whatever
\* the body names, and is of a service that exists in that domain; a request
\* for a domain the artifact has no entity of, or for a service that the
\* domain does not have, ends without any call to the hub.
C35_CallsTargetOwnEntity ==
    /\ \A i \in DOMAIN act_calls :
          /\ OwnOfDomain # <<>>
          /\ act_calls[i].payload["entity_id"] = OwnOfDomain[1]
          /\ act_calls[i].domain = act_request.domain
          /\ act_calls[i].service = act_request.service
          /\ ExistsInDomain
    /\ Len(act_calls) <= 1
    /\ ServiceRequestDone /\ OwnOfDomain = <<>> => act_calls = <<>>
    /\ ServiceRequestDone /\ act_services >= 0 /\ ~ExistsInDomain => act_calls = <<>>

\* a call was made for a request whose body names another entity
C35_Witness ==
    /\ act_calls # <<>>
    /\ "entity_id" \in DOMAIN act_request.body
    /\ act_request.body["entity_id"] # act_calls[1].payload["entity_id"]
    /\ act_calls[1].payload["entity_id"] = E_light

\* a request for a service the domain does not have was answered without a call
C35_WitnessNoService ==
    /\ ServiceRequestDone
    /\ act_services >= 1
    /\ OwnOfDomain # <<>>
    /\ ~ExistsInDomain
    /\ act_status = 404

\* the description of the artifact made from the same registry and catalog
\* advertises an action for the requested pair
Advertised ==
    LET domains == {DomainOf(ActArtifact[i].entity_id) : i \in DOMAIN ActArtifact}
        actions == ServiceActions(ActCatalog, Sorted(domains), 1)
    IN  \E i \in DOMAIN actions :
            actions[i].target = Target("ha", Quote(act_request.domain),
                                       Quote(act_request.service))

ServiceLookedUp == act_request.kind = "ha" /\ act_services >= 0

\* C36: under one registry and catalog, the endpoint calls the hub for a
\* (domain, service) pair exactly when the description advertises an action
\* for that pair.
C36_InvokedIffAdvertised ==
    ServiceLookedUp => (act_calls # <<>> <=> Advertised)

\* what does hold: every advertised service action is accepted
C36_AdvertisedIsInvoked ==
    ServiceLookedUp /\ Advertised => act_calls # <<>>

C36_AdvertisedReached ==
    ServiceLookedUp /\ Advertised /\ act_status = 200

\* the first sensor of the artifact, None when it has none
ActSensor == PickEntity(ActArtifact, D_sensor)

\* the action the description made from the same registry and states advertises
\* for the sensor
AdvertisedSensorActions == SensorActions(ActArtifact, ArtStateLists[act_states])

\* the names derived from the sensor's state: with and without device class
DerivedNames ==
    UNION {SensorNames(ActStateLists[act_states][i].attributes, <<>>) :
              i \in {j \in DOMAIN ActStateLists[act_states] :
                        ActStateLists[act_states][j].entity_id = ActSensor}}

SensorRequestDone ==
    act_request.kind = "sensor" /\ act_pc = "done" /\ act_states >= 1 /\ act_status # 500

\* C37: under one registry and list of states, a request to the dynamic
\* sensor endpoint with the name the description advertises is answered with
\* the state of the artifact's sensor, and a request with a name that is
\* neither the name with device class nor the name without it is answered 404.
C37_AdvertisedNameReadsSensor ==
    /\ SensorRequestDone /\ AdvertisedSensorActions # <<>>
          /\ act_request.action_name = AdvertisedSensorActions[1].name
          => /\ act_status = 200
             /\ \E i \in DOMAIN ActStateLists[act_states] :
                   /\ ActStateLists[act_states][i].entity_id = ActSensor
                   /\ act_body = ActStateLists[act_states][i].state
    /\ SensorRequestDone /\ act_request.action_name \notin DerivedNames
          => act_status = 404
    /\ act_request.kind = "sensor" /\ act_pc = "done" /\ act_status # 500
          /\ ~SensorShaped(act_request.action_name)
          => act_status = 404

\* getTemperatureInDegc, advertised for the lamp's sensor, was answered with 21
C37_Witness ==
    /\ SensorRequestDone
    /\ AdvertisedSensorActions # <<>>
    /\ act_request.action_name = AdvertisedSensorActions[1].name
    /\ act_request.action_name = A_getTemperatureInDegc
    /\ act_status = 200
    /\ act_body = S_21

\* a name of the right shape that is not the sensor's was answered 404
C37_WitnessRejected ==
    /\ SensorRequestDone
    /\ SensorShaped(act_request.action_name)
    /\ DerivedNames # {}
    /\ act_request.action_name \notin DerivedNames
    /\ act_status = 404

----------------------------------------------------------------------------
(* The registration against the forwarder *)

\* the state objects the hub may answer
KnownStates == UNION {{HubStateLists[k][i] : i \in DOMAIN HubStateLists[k]} : k \in DOMAIN HubStateLists}

\* the event that reports the entity in that state
EventOf(st) == Msg("event", "state_changed", st.entity_id, st.state, st.device_class)

\* the registration sends the state: it runs (line 337) and keeps the state
\* (lines 347-351)
RegistrationSends(st) == MONITOR_URL # "" /\ AREAS # {} /\ RegForwards(st, index, AREAS)

\* the forwarder sends the event of that state (lines 255-259)
ForwarderSends(st) == MONITOR_URL # "" /\ Forwards(EventOf(st), index, AREAS)

\* the notification of each, without its timestamp
Addressed(n) ==
    [artifactUri |-> n.artifactUri, propertyUri |-> n.propertyUri, value |-> n.value,
     valueTypeUri |-> n.valueTypeUri, triggerUri |-> n.triggerUri]
RegistrationPayload(st) ==
    Notification(index, LookupArea(index, st.entity_id), st.entity_id, st.device_class,
                 st.state, st.last_changed)
ForwarderPayload(st) ==
    Notification(index, LookupArea(index, EventOf(st).entity_id), EventOf(st).entity_id,
                 EventOf(st).device_class, EventOf(st).state, EventOf(st).time_fired)

\* C38: for the same index, allow-list and entity state the registration and
\* the forwarder decide alike whether to send, an empty allow-list included,
\* and what they send has the same artifactUri, propertyUri, value,
\* valueTypeUri and triggerUri.
C38_SameDecisionSamePayload ==
    \A st \in KnownStates :
        /\ RegistrationSends(st) <=> ForwarderSends(st)
        /\ RegistrationSends(st) /\ ForwarderSends(st)
              => Addressed(RegistrationPayload(st)) = Addressed(ForwarderPayload(st))

\* what does hold: they agree whenever the allow-list is not empty
C38_SameWithAllowList ==
    AREAS # {} =>
        \A st \in KnownStates :
            /\ RegistrationSends(st) <=> ForwarderSends(st)
            /\ RegistrationSends(st)
                  => Addressed(RegistrationPayload(st)) = Addressed(ForwarderPayload(st))

\* both send some state, under an allow-list
C38_BothSendReached ==
    AREAS # {} /\ \E st \in KnownStates : RegistrationSends(st) /\ ForwarderSends(st)

----------------------------------------------------------------------------
(* Failures of the Illuminance Accumulator *)

Adjusting == {"get", "set", "fb_get", "fb_set"}

\* C39: a failure while the sensor is read or written for an event drops that
\* adjustment only: the loop is back at its receive on the same open stream
\* and the sensor is left as it was; the stream is closed only by an error of
\* the stream itself, which ends the accumulator, and nothing follows it.
C39_FailureDropsOneAdjustment ==
    [][/\ acc_pc \in Adjusting /\ acc_pc' \notin Adjusting
            => acc_pc' = "recv" /\ acc_ws' = "open"
       /\ acc_pc \in Adjusting /\ acc_pc' = "recv" /\ written' = written
            => dropped' /\ hub_sensor' = hub_sensor /\ acc_ws' = acc_ws
       /\ acc_ws' # acc_ws
            => acc_pc = "recv" /\ acc_pc' = "stopped" /\ acc_ws' = "closed"
       /\ acc_pc' = "stopped" => acc_ws' = "closed"
       /\ acc_pc = "stopped" => acc_pc' = "stopped" /\ acc_ws' = "closed"]_vars

\* after a failed adjustment a following event is being processed, on the
\* stream that is still open
C39_Witness ==
    /\ dropped
    /\ acc_pc = "get"
    /\ adjustments >= 2
    /\ acc_ws = "open"

\* the stream failed after a failed adjustment, and the accumulator has ended
C39_WitnessStopped ==
    /\ dropped
    /\ acc_pc = "stopped"
    /\ acc_ws = "closed"

====
